---- MODULE Spec2Model ----
(***************************************************************************)
(* Model of the retrieval-augmented-generation core of the repository:     *)
(* the section splitter of src/app/api/vision/route.ts, the response text  *)
(* extraction and the embedding generator of src/unnamed/part_000, and the *)
(* vector store adapter of src/lib/rag/pinecone-client.ts.                 *)
(*                                                                         *)
(* A JavaScript string is modelled as the sequence of its characters, each *)
(* character a one-character TLA+ string.                                  *)
(***************************************************************************)
EXTENDS Integers, Sequences, FiniteSets, TLC

(***************************************************************************)
(* State                                                                   *)
(***************************************************************************)
VARIABLES
  \* splitTextIntoSections: the argument, the returned sections, the position of the call
  text, sections, splitPc,
  \* response text extraction: the provider response, response.ok, the value an
  \* entry point returned (or the error it raised), the entry point that ran
  data, responseOk, extracted, extractPc,
  \* generateEmbeddings: the argument, the module-level client handle, the loop
  \* index i, the results array, the position of the call; the embedding API's
  \* view: the requests received so far, the requests not yet answered, and the
  \* numbers of the batches it failed
  texts, openaiClient, batchStart, results, embedPc, apiCalls, inFlight, failedBatches,
  \* queryEmbeddings: the arguments, the module-level client handle, the index
  \* reference, the requests the store received, what the store answered, the
  \* returned value, the position of the call
  queryEmbedding, topK, filter, pineconeClient, index, storeRequests, storeAnswer,
  queryResult, queryPc,
  \* formatContextForPrompt: the argument, the returned string, the position of the call
  contexts, formatted, formatPc,
  \* storeEmbeddings: the documents, the loop variable i, the upsert calls the store
  \* received, those unanswered, those that failed, the returned value, the position
  documents, storeBatchStart, upsertCalls, upsertInFlight, failedUpserts, storeReturn, storePc,
  \* deleteEmbeddings: the arguments, the deleteMany calls the store received, the
  \* returned value, the position
  deleteNamespace, deleteFilter, deleteCalls, deleteReturn, deletePc,
  \* the upload handler POST: the session of the request, whether its body is form data,
  \* the file of the form, the answer of the
  \* vision model (its JSON value, or the body of an error answer), the extracted text, the
  \* structured document, the chunks, the records of generateEmbeddings, the external
  \* calls made so far, the response, the position
  session, formParses, file, visionData, errorData, extractedText, structuredData, chunks,
  embeddingsWithText, externalCalls, response, uploadPc,
  \* the client getters: what each call of getPineconeClient and getOpenAIClient
  \* returned, in the order of the calls, and the number of clients each has constructed
  clientReturns, pineconeConstructions, openaiConstructions,
  \* getRelevantContext: the topK argument, the embedding of the query (absent when it
  \* could not be generated), the returned value, the position of the call
  relevantTopK, relevantEmbedding, relevantResult, relevantPc

splitVars == <<text, sections, splitPc>>
extractVars == <<data, responseOk, extracted, extractPc>>
embedVars == <<texts, openaiClient, batchStart, results, embedPc, apiCalls, inFlight, failedBatches>>
queryVars == <<queryEmbedding, topK, filter, pineconeClient, index, storeRequests, storeAnswer,
               queryResult, queryPc>>
coreVars == <<splitVars, extractVars, embedVars, queryVars>>
formatVars == <<contexts, formatted, formatPc>>
\* the variables of the later operations, which the operations above leave alone
storeVars == <<documents, storeBatchStart, upsertCalls, upsertInFlight, failedUpserts, storeReturn,
               storePc>>
deleteVars == <<deleteNamespace, deleteFilter, deleteCalls, deleteReturn, deletePc>>
uploadVars == <<session, formParses, file, visionData, errorData, extractedText,
                structuredData, chunks, embeddingsWithText, externalCalls, response, uploadPc>>
clientVars == <<clientReturns, pineconeConstructions, openaiConstructions>>
relevantVars == <<relevantTopK, relevantEmbedding, relevantResult, relevantPc>>
newerVars == <<clientVars, relevantVars>>
laterVars == <<formatVars, storeVars, deleteVars, uploadVars, newerVars>>
\* what the operations of one group leave alone
notFormatVars == <<coreVars, storeVars, deleteVars, uploadVars, newerVars>>
\* storeEmbeddings and deleteEmbeddings set pineconeClient and index, as queryEmbeddings does
queryOwnVars == <<queryEmbedding, topK, filter, storeRequests, storeAnswer, queryResult, queryPc>>
storeFrame == <<splitVars, extractVars, embedVars, queryOwnVars, formatVars, deleteVars,
                uploadVars, newerVars>>
deleteFrame == <<splitVars, extractVars, embedVars, queryOwnVars, formatVars, storeVars,
                 uploadVars, newerVars>>
\* the upload handler calls storeEmbeddings
uploadFrame == <<coreVars, formatVars, deleteVars, newerVars>>
\* the client getters set pineconeClient and openaiClient only
embedOwnVars == <<texts, batchStart, results, embedPc, apiCalls, inFlight, failedBatches>>
clientFrame == <<splitVars, extractVars, embedOwnVars, queryOwnVars, index, formatVars,
                 storeVars, deleteVars, uploadVars, relevantVars>>
\* getRelevantContext sets openaiClient and calls queryEmbeddings
relevantFrame == <<splitVars, extractVars, embedOwnVars, formatVars, storeVars, deleteVars,
                   uploadVars, clientVars>>
vars == <<coreVars,
                 laterVars>>

(***************************************************************************)
(* Characters and the string primitives the code uses                      *)
(***************************************************************************)
UpperSeq == <<"A","B","C","D","E","F","G","H","I","J","K","L","M","N","O","P","Q","R","S","T","U","V","W","X","Y","Z">>
LowerSeq == <<"a","b","c","d","e","f","g","h","i","j","k","l","m","n","o","p","q","r","s","t","u","v","w","x","y","z">>
Upper == {UpperSeq[i] : i \in 1..26}
Lower == {LowerSeq[i] : i \in 1..26}
Digit == {"0","1","2","3","4","5","6","7","8","9"}
\* the white space characters of String.prototype.trim and of \s that occur in the inputs
WhiteSpace == {" ", "\t", "\n"}

MinOf(S) == CHOOSE m \in S : \A k \in S : m <= k

\* case folding of the regular expression flag /i and of toLowerCase (compared on folded forms)
FoldChar(c) == IF c \in Lower THEN UpperSeq[CHOOSE i \in 1..26 : LowerSeq[i] = c] ELSE c
Fold(s) == [i \in 1..Len(s) |-> FoldChar(s[i])]

\* String.prototype.trim
RECURSIVE FirstNonSpace(_, _)
FirstNonSpace(s, i) ==
  IF i > Len(s) THEN i ELSE IF s[i] \notin WhiteSpace THEN i ELSE FirstNonSpace(s, i + 1)
RECURSIVE LastNonSpace(_, _)
LastNonSpace(s, i) ==
  IF i < 1 THEN i ELSE IF s[i] \notin WhiteSpace THEN i ELSE LastNonSpace(s, i - 1)
Trim(s) == SubSeq(s, FirstNonSpace(s, 1), LastNonSpace(s, Len(s)))

\* String.prototype.includes
Includes(s, sub) ==
  \E k \in 0..(Len(s) - Len(sub)) : SubSeq(s, k + 1, k + Len(sub)) = sub

\* text.split('\n')
RECURSIVE SplitLines(_)
SplitLines(s) ==
  LET nl == {i \in 1..Len(s) : s[i] = "\n"}
  IN  IF nl = {} THEN <<s>>
      ELSE <<SubSeq(s, 1, MinOf(nl) - 1)>> \o SplitLines(SubSeq(s, MinOf(nl) + 1, Len(s)))

\* Array.prototype.join
RECURSIVE Join(_, _)
Join(parts, sep) ==
  IF parts = <<>> THEN <<>>
  ELSE IF Len(parts) = 1 THEN parts[1]
  ELSE parts[1] \o sep \o Join(Tail(parts), sep)

(***************************************************************************)
(* Section Splitter: splitTextIntoSections, src/app/api/vision/route.ts    *)
(***************************************************************************)
StrContent == <<"C","o","n","t","e","n","t">>
StrIntroduction == <<"I","n","t","r","o","d","u","c","t","i","o","n">>

\* route.ts:58  if (text.length < 200)
ShortTextLimit == 200
IsShortTextLow(s) == Len(s) < 20
IsShortText(s) == Len(s) < ShortTextLimit

\* route.ts:59-62 and 127-130, 137-140: the single 'Content' section
SingleSectionTrimmed(s) == <<[title |-> StrContent, content |-> Trim(s)]>>
SingleSection(s) == <<[title |-> StrContent, content |-> s]>>

\* /^.*:$/
EndsWithColon(t) == Len(t) >= 1 /\ t[Len(t)] = ":"

\* /^[A-Z][A-Z\s.,;'"\-]{4,99}$/
CapsTail == Upper \cup WhiteSpace \cup {".", ",", ";", "'", "\"", "-"}
AllCapsLine(t) ==
  /\ Len(t) >= 5
  /\ Len(t) <= 100
  /\ t[1] \in Upper
  /\ \A i \in 2..Len(t) : t[i] \in CapsTail

\* t[from..] matches \s+ followed by a character of cls
SpacesThen(t, from, cls) ==
  \E j \in from..(Len(t) - 1) :
    /\ \A i \in from..j : t[i] \in WhiteSpace
    /\ t[j + 1] \in cls

\* /^(Section|SECTION|Article|ARTICLE|Chapter|CHAPTER|PART|Part)\s+[0-9IVXLCDM]+/i
\* (the flag i folds the case of the keyword and of the numeral class alike)
SectionKeywords ==
  { <<"S","E","C","T","I","O","N">>, <<"A","R","T","I","C","L","E">>,
    <<"C","H","A","P","T","E","R">>, <<"P","A","R","T">> }
NumeralChars == Digit \cup {"I", "V", "X", "L", "C", "D", "M"}
KeywordHeader(t) ==
  \E kw \in SectionKeywords :
    /\ Len(t) > Len(kw)
    /\ Fold(SubSeq(t, 1, Len(kw))) = kw
    /\ SpacesThen(Fold(t), Len(kw) + 1, NumeralChars)

\* a run t[1..n] of characters of cls, then '.', then \s+[A-Z]
EnumeratorHeader(t, cls, n) ==
  /\ n >= 1
  /\ Len(t) >= n + 3
  /\ \A i \in 1..n : t[i] \in cls
  /\ t[n + 1] = "."
  /\ SpacesThen(t, n + 2, Upper)

\* /^[0-9]+\.\s+[A-Z]/
NumberedHeader(t) == \E n \in 1..Len(t) : EnumeratorHeader(t, Digit, n)
\* /^[IVXLCDM]+\.\s+[A-Z]/
RomanHeader(t) == \E n \in 1..Len(t) : EnumeratorHeader(t, {"I", "V", "X", "L", "C", "D", "M"}, n)
\* /^[A-Z]\.\s+[A-Z]/
LetterHeader(t) == EnumeratorHeader(t, Upper, 1)

\* route.ts:98  headerPatterns.some(pattern => pattern.test(trimmedLine))
IsHeader(t) ==
  \/ EndsWithColon(t)
  \/ AllCapsLine(t)
  \/ KeywordHeader(t)
  \/ NumberedHeader(t)
  \/ RomanHeader(t)
  \/ LetterHeader(t)

\* route.ts:108  trimmedLine.endsWith(':') ? trimmedLine.slice(0, -1) : trimmedLine
HeaderTitle(t) == IF EndsWithColon(t) THEN SubSeq(t, 1, Len(t) - 1) ELSE t

\* route.ts:102-104 and 121-123: push the section only if its content is not blank
CloseSectionAlways(secs, cur) == Append(secs, cur)
CloseSection(secs, cur) ==
  IF Trim(cur.content) # <<>> THEN Append(secs, cur) ELSE secs

\* route.ts:113-116: append the (untrimmed) line to the current section
AppendLine(cur, line) ==
  [cur EXCEPT !.content =
     IF cur.content # <<>> THEN cur.content \o <<"\n">> \o line ELSE line]

\* route.ts:89-118: the loop over the lines, from line i on
RECURSIVE SplitLoop(_, _, _, _)
SplitLoop(lines, i, secs, cur) ==
  IF i > Len(lines) THEN [sections |-> secs, currentSection |-> cur]
  ELSE LET line == lines[i]
           trimmedLine == Trim(line)
       IN  IF trimmedLine = <<>> THEN SplitLoop(lines, i + 1, secs, cur)
           ELSE IF IsHeader(trimmedLine)
                THEN SplitLoop(lines, i + 1, CloseSection(secs, cur),
                               [title |-> HeaderTitle(trimmedLine), content |-> <<>>])
                ELSE SplitLoop(lines, i + 1, secs, AppendLine(cur, line))

\* route.ts:55-142 (a string argument raises nothing in the try block)
splitTextIntoSections(s) ==
  IF IsShortText(s) THEN SingleSection(s)
  ELSE LET lines == SplitLines(s)
           loop == SplitLoop(lines, 1, <<>>, [title |-> StrIntroduction, content |-> <<>>])
           closed == CloseSection(loop.sections, loop.currentSection)
       IN  IF Len(closed) = 0 THEN SingleSection(s) ELSE closed

(***************************************************************************)
(* Inputs of the splitter: texts made of at most MaxLines lines            *)
(***************************************************************************)
MaxLines == 3
LongLineLen == 190
LongLine == [i \in 1..LongLineLen |-> "x"]
CatalogueLines ==
  { <<"S","u","m","m","a","r","y",":">>,
    <<"S","E","C","T","I","O","N"," ","2",":"," ","D","e","t","a","i","l","s">>,
    <<"O","V","E","R","V","I","E","W">>,
    <<"1","."," ","S","c","o","p","e">>,
    <<"I","V","."," ","T","e","r","m","s">>,
    <<"A","."," ","B","e","e">>,
    <<"P","a","r","t"," ","d","a","n","c","e">>,
    <<"M","o","r","e"," ","i","n","f","o",".">>,
    <<" "," ","i","n","d","e","n","t","e","d">>,
    <<>>,
    LongLine }
\* the example text of the specification, section 8
ExampleText ==
  Join(<< <<"S","E","C","T","I","O","N"," ","1",":"," ","O","v","e","r","v","i","e","w">>,
          <<"T","h","i","s"," ","i","s"," ","t","h","e"," ","i","n","t","r","o",".">>,
          <<"S","E","C","T","I","O","N"," ","2",":"," ","D","e","t","a","i","l","s">>,
          <<"M","o","r","e"," ","i","n","f","o",".">> >>, <<"\n">>)
SplitInputs ==
  {Join(ls, <<"\n">>) : ls \in UNION {[1..n -> CatalogueLines] : n \in 1..MaxLines}}
    \cup {ExampleText}

(***************************************************************************)
(* The splitter as a state machine: one call on one input                  *)
(***************************************************************************)
SplitInit == text \in SplitInputs /\ sections = <<>> /\ splitPc = "start"
SplitIdle == text = <<>> /\ sections = <<>> /\ splitPc = "idle"

CallSplit ==
  /\ splitPc = "start"
  /\ sections' = splitTextIntoSections(text)
  /\ splitPc' = "done"
  /\ UNCHANGED <<text, extractVars, embedVars, queryVars,
                 laterVars>>

\* the lines of a text as the claims describe them
LinesOf(t) == SplitLines(t)
IsHeaderLine(l) == Trim(l) # <<>> /\ IsHeader(Trim(l))
IsBodyLine(l) == Trim(l) # <<>> /\ ~IsHeader(Trim(l))
NotHeaderLine(l) == ~IsHeaderLine(l)
\* the positions of the header lines and of the non-blank non-header lines
HeaderLines(t) == LET ls == LinesOf(t) IN {i \in 1..Len(ls) : IsHeaderLine(ls[i])}
BodyLines(t) == LET ls == LinesOf(t) IN {i \in 1..Len(ls) : IsBodyLine(ls[i])}
\* a body line stands before the first header line
ContentPrecedes(t) ==
  LET hs == HeaderLines(t) bs == BodyLines(t) IN \E b \in bs : \A h \in hs : b < h
\* the header lines with a body line before the next header line
FilledHeaders(t) ==
  LET hs == HeaderLines(t) bs == BodyLines(t)
  IN  {h \in hs : \E b \in bs : b > h /\ \A h2 \in hs : ~(h < h2 /\ h2 < b)}
ContentsOf(secs) == [k \in 1..Len(secs) |-> secs[k].content]

\* C1 (as stated): for the example text of the specification the splitter
\* returns the two sections 'SECTION 1' / 'This is the intro.' and
\* 'SECTION 2' / 'More info.', in this order.
C1_ExampleTwoSections ==
  (splitPc = "done" /\ text = ExampleText) =>
    sections =
      << [title |-> <<"S","E","C","T","I","O","N"," ","1">>,
          content |-> <<"T","h","i","s"," ","i","s"," ","t","h","e"," ","i","n","t","r","o",".">>],
         [title |-> <<"S","E","C","T","I","O","N"," ","2">>,
          content |-> <<"M","o","r","e"," ","i","n","f","o",".">>] >>

\* C1 (amended): the example text has 68 characters, fewer than 200, so the
\* splitter returns exactly one section, titled 'Content', whose content is
\* the whole example text.
C1_ExampleSingleContent ==
  (splitPc = "done" /\ text = ExampleText) =>
    sections = << [title |-> StrContent, content |-> ExampleText] >>
C1_Witness == splitPc = "done" /\ text = ExampleText /\ Len(text) = 68 /\ Len(sections) = 1

\* C2 (as stated): for a text of at least 200 characters with N header lines
\* the splitter returns N sections (N + 1 when content precedes the first
\* header), every section has non-empty content, and the contents joined in
\* order are the text without its header lines.
C2_OnePerHeader ==
  (splitPc = "done" /\ Len(text) >= ShortTextLimit) =>
    /\ Len(sections) =
         Cardinality(HeaderLines(text)) + (IF ContentPrecedes(text) THEN 1 ELSE 0)
    /\ \A k \in 1..Len(sections) : sections[k].content # <<>>
    /\ Join(ContentsOf(sections), <<"\n">>)
         = Join(SelectSeq(LinesOf(text), NotHeaderLine), <<"\n">>)

\* C2 (amended): for a text of at least 200 characters the splitter returns
\* one section per header line that has a non-blank non-header line before
\* the next header line (plus a leading section when such a line precedes the
\* first header); every section has non-blank content, and the contents
\* joined by newlines are the non-blank non-header lines of the text in
\* order. When no section has content it returns the single section
\* 'Content' holding the whole text.
C2_OnePerFilledHeader ==
  (splitPc = "done" /\ Len(text) >= ShortTextLimit) =>
    LET expected == Cardinality(FilledHeaders(text)) + (IF ContentPrecedes(text) THEN 1 ELSE 0)
    IN  IF expected = 0
        THEN sections = << [title |-> StrContent, content |-> text] >>
        ELSE /\ Len(sections) = expected
             /\ \A k \in 1..Len(sections) : Trim(sections[k].content) # <<>>
             /\ Join(ContentsOf(sections), <<"\n">>)
                  = Join(SelectSeq(LinesOf(text), IsBodyLine), <<"\n">>)
C2_Witness ==
  /\ splitPc = "done"
  /\ Len(text) >= ShortTextLimit
  /\ Cardinality(HeaderLines(text)) = 2
  /\ Cardinality(FilledHeaders(text)) = 1
  /\ Len(sections) = 1
  /\ sections[1].title # StrContent

\* C3: for every text shorter than 200 characters, header-like lines or not,
\* the splitter returns exactly one section, titled 'Content', whose content
\* is the input text unchanged.
C3_ShortTextSingleSection ==
  (splitPc = "done" /\ Len(text) < 200) =>
    /\ Len(sections) = 1
    /\ sections[1].title = StrContent
    /\ sections[1].content = text
C3_Witness ==
  /\ splitPc = "done"
  /\ Len(text) < 200
  /\ Len(text) > 190
  /\ HeaderLines(text) # {}
  /\ BodyLines(text) # {}
  /\ Len(sections) = 1

(***************************************************************************)
(* Response text extraction, src/unnamed/part_000:5-237                    *)
(*                                                                         *)
(* An optional property is a sequence of length 0 (absent) or 1 (present). *)
(* A provider response is the record of its properties, in the key order   *)
(* id, choices, content, candidates, text, response, output,               *)
(* generated_text; choices and candidates stand for their element [0].     *)
(* A returned value is [kind, s]: a string, an object (candidates[0]       *)
(* .content returned as it is, s its parts[0].text), null, or a raised     *)
(* error.                                                                  *)
(***************************************************************************)
Absent == <<>>
IsTruthyString(m) == m # Absent /\ m[1] # ""
StringValue(str) == [kind |-> "string", s |-> str]
ObjectValue(str) == [kind |-> "object", s |-> str]
NullValue == [kind |-> "null", s |-> ""]
Raised(msg) == [kind |-> "throw", s |-> msg]
IsTruthyValue(v) == v.kind = "object" \/ (v.kind = "string" /\ v.s # "")

\* data.choices[0].message.content, undefined when a link is missing
MessageContent(d) ==
  IF d.choices # Absent /\ d.choices[1].message # Absent
  THEN d.choices[1].message[1].content ELSE Absent
\* data.choices[0].text
ChoiceText(d) == IF d.choices # Absent THEN d.choices[1].text ELSE Absent
\* data.candidates[0].content: a string, or an object that may have parts[0].text
CandidateContent(d) == IF d.candidates # Absent THEN d.candidates[1].content ELSE Absent
IsTruthyCandidateContent(c) == c # Absent /\ (c[1].isObject \/ c[1].str # "")
CandidateContentValue(c) ==
  IF c[1].isObject
  THEN ObjectValue(IF c[1].parts # Absent THEN c[1].parts[1] ELSE "")
  ELSE StringValue(c[1].str)

\* part_000:53-67 findStringProperty: the first string property longer than
\* 10 characters, depth first in key order
MinStringLength == 10
StringProperties(d) ==
  << d.id, MessageContent(d), ChoiceText(d), d.content,
     IF CandidateContent(d) # Absent /\ ~CandidateContent(d)[1].isObject
       THEN <<CandidateContent(d)[1].str>> ELSE Absent,
     IF CandidateContent(d) # Absent /\ CandidateContent(d)[1].isObject
       THEN CandidateContent(d)[1].parts ELSE Absent,
     d.text, d.response, d.output, d.generated_text >>
findStringProperty(d) ==
  LET props == StringProperties(d)
      long == {k \in 1..Len(props) : props[k] # Absent /\ Len(props[k][1]) > MinStringLength}
  IN  IF long = {} THEN NullValue ELSE StringValue(props[MinOf(long)][1])

\* part_000:12-49: the shapes tested before the recursive search, in the order of the code
KnownShape(d) ==
  IF IsTruthyString(ChoiceText(d)) THEN StringValue(ChoiceText(d)[1])
  ELSE IF IsTruthyString(d.content) THEN StringValue(d.content[1])
  ELSE IF IsTruthyCandidateContent(CandidateContent(d))
       THEN CandidateContentValue(CandidateContent(d))
  ELSE IF IsTruthyString(d.text) THEN StringValue(d.text[1])
  ELSE IF IsTruthyString(d.response) THEN StringValue(d.response[1])
  ELSE IF IsTruthyString(d.output) THEN StringValue(d.output[1])
  ELSE IF IsTruthyString(d.generated_text) THEN StringValue(d.generated_text[1])
  ELSE NullValue

\* part_000:5-81 (a response object raises nothing in the try block)
extractTextFromResponse(d) ==
  IF KnownShape(d) # NullValue THEN KnownShape(d) ELSE findStringProperty(d)

\* part_000:152-172: the part of createOpenRouterChatCompletionNonStreaming after the fetch
createOpenRouterChatCompletionNonStreamingAnyStatus(d, ok) ==
  IF IsTruthyString(MessageContent(d)) THEN StringValue(MessageContent(d)[1])
  ELSE IF IsTruthyValue(extractTextFromResponse(d)) THEN extractTextFromResponse(d)
  ELSE Raised("Failed to extract text from OpenRouter response")
createOpenRouterChatCompletionNonStreaming(d, ok) ==
  IF ~ok THEN Raised("OpenRouter API error")
  ELSE IF IsTruthyString(MessageContent(d)) THEN StringValue(MessageContent(d)[1])
  ELSE IF IsTruthyValue(extractTextFromResponse(d)) THEN extractTextFromResponse(d)
  ELSE Raised("Failed to extract text from OpenRouter response")

\* part_000:216-232: the part of sendVisionRequest after the fetch
sendVisionRequest(d, ok) ==
  IF ~ok THEN Raised("OpenRouter Vision API error")
  ELSE IF IsTruthyValue(extractTextFromResponse(d)) THEN extractTextFromResponse(d)
  ELSE Raised("Failed to extract text from Vision API response")

\* the provider responses the entry points are run on
MessageValues ==
  { Absent, <<[content |-> Absent]>>, <<[content |-> <<"">>]>>, <<[content |-> <<"Hi">>]>>,
    <<[content |-> <<"openai message content">>]>> }
ChoiceTextValues == {Absent, <<"Hello">>, <<"openrouter choice text">>}
ChoicesValues ==
  {Absent} \cup {<<[message |-> m, text |-> t]>> : m \in MessageValues, t \in ChoiceTextValues}
ContentValues == {Absent, <<"">>, <<"anthropic content">>}
CandidatesValues ==
  { Absent, <<[content |-> Absent]>>,
    <<[content |-> <<[isObject |-> FALSE, str |-> "gemini content string", parts |-> Absent]>>]>>,
    <<[content |-> <<[isObject |-> TRUE, str |-> "", parts |-> <<"gemini parts text">>]>>]>>,
    <<[content |-> <<[isObject |-> TRUE, str |-> "", parts |-> Absent]>>]>> }
ExtractInputs ==
  [ id : {Absent, <<"gen-1730000000">>},
    choices : ChoicesValues,
    content : ContentValues,
    candidates : CandidatesValues,
    text : {Absent, <<"direct text field">>},
    response : {Absent, <<"direct response field">>},
    output : {Absent, <<"direct output field">>},
    generated_text : {Absent, <<"direct generated_text field">>} ]

ExtractInit ==
  /\ data \in ExtractInputs
  /\ responseOk = TRUE
  /\ extracted = NullValue
  /\ extractPc = "start"
ExtractIdle ==
  /\ data = Absent
  /\ responseOk = TRUE
  /\ extracted = NullValue
  /\ extractPc = "idle"

CallExtractTextFromResponse ==
  /\ extractPc = "start"
  /\ extracted' = extractTextFromResponse(data)
  /\ extractPc' = "extractTextFromResponse"
  /\ UNCHANGED <<data, responseOk, splitVars, embedVars, queryVars,
                 laterVars>>

CallNonStreaming ==
  /\ extractPc = "start"
  /\ \E ok \in BOOLEAN :
       /\ responseOk' = ok
       /\ extracted' = createOpenRouterChatCompletionNonStreaming(data, ok)
  /\ extractPc' = "createOpenRouterChatCompletionNonStreaming"
  /\ UNCHANGED <<data, splitVars, embedVars, queryVars,
                 laterVars>>

CallSendVisionRequest ==
  /\ extractPc = "start"
  /\ \E ok \in BOOLEAN :
       /\ responseOk' = ok
       /\ extracted' = sendVisionRequest(data, ok)
  /\ extractPc' = "sendVisionRequest"
  /\ UNCHANGED <<data, splitVars, embedVars, queryVars,
                 laterVars>>

ExtractNext == CallExtractTextFromResponse \/ CallNonStreaming \/ CallSendVisionRequest

\* the priority order of the specification, section 4.7
PriorityText(d) ==
  IF IsTruthyString(MessageContent(d)) THEN StringValue(MessageContent(d)[1])
  ELSE IF IsTruthyString(ChoiceText(d)) THEN StringValue(ChoiceText(d)[1])
  ELSE IF IsTruthyString(d.content) THEN StringValue(d.content[1])
  ELSE IF IsTruthyCandidateContent(CandidateContent(d))
       THEN IF CandidateContent(d)[1].isObject /\ CandidateContent(d)[1].parts # Absent
            THEN StringValue(CandidateContent(d)[1].parts[1])
            ELSE CandidateContentValue(CandidateContent(d))
  ELSE IF IsTruthyString(d.text) THEN StringValue(d.text[1])
  ELSE IF IsTruthyString(d.response) THEN StringValue(d.response[1])
  ELSE IF IsTruthyString(d.output) THEN StringValue(d.output[1])
  ELSE IF IsTruthyString(d.generated_text) THEN StringValue(d.generated_text[1])
  ELSE findStringProperty(d)

\* C5: whichever entry point runs on a response (that arrived with an OK
\* status), the text it returns is that of the earliest matching shape in
\* the order choices[0].message.content, choices[0].text, content,
\* candidates[0].content (parts[0].text when present), text / response /
\* output / generated_text, and the recursive search only when none matches.
C5_ExtractionPriority ==
  (extractPc \in {"extractTextFromResponse", "createOpenRouterChatCompletionNonStreaming",
                  "sendVisionRequest"} /\ responseOk) =>
    IF IsTruthyValue(PriorityText(data))
    THEN extracted = PriorityText(data)
    ELSE extracted.kind \in {"null", "throw"}

\* ---- claims on the raising of the non-streaming call ----
\* the values the strategies of the code yield on a response: message.content,
\* the known shapes, the recursive search
StrategyValues(d) ==
  {v \in { IF IsTruthyString(MessageContent(d)) THEN StringValue(MessageContent(d)[1])
           ELSE NullValue,
           KnownShape(d), findStringProperty(d) } : IsTruthyValue(v)}
\* what the non-streaming call finds first: message.content, then extractTextFromResponse
FirstStrategyValue(d) ==
  IF IsTruthyString(MessageContent(d)) THEN StringValue(MessageContent(d)[1])
  ELSE extractTextFromResponse(d)

MaxTexts == 41
\* part_000:300  const batchSize = 20
batchSize == 20

EmbeddingOf(t) == <<t>>
NullEmbedding == <<>>

\* part_000:304  texts.slice(i, i + batchSize)
Slice(seq, from, to) == SubSeq(seq, from + 1, IF to < Len(seq) THEN to ELSE Len(seq))
BatchAt(i) == Slice(texts, i, i + batchSize)

\* part_000:303  i += batchSize
NextBatchStart(i) == i + batchSize

\* part_000:315-317  response.data.forEach(item => results.push(item.embedding))
PushEmbeddings(res, batch) == res \o [k \in 1..Len(batch) |-> EmbeddingOf(batch[k])]

\* part_000:321  batch.forEach(() => results.push(null))
PushNullOnce(res, batch) == Append(res, NullEmbedding)
PushNulls(res, batch) == res \o [k \in 1..Len(batch) |-> NullEmbedding]

\* part_000:293 and 329  texts.map(() => null)
AllNull(seq) == [k \in 1..Len(seq) |-> NullEmbedding]

\* part_000:318-322: the catch block of a batch ends the iteration, the loop goes on
PcAfterBatchFailureAbort == "done"
PcAfterBatchFailure == "loop"

EmbedInit ==
  /\ texts \in {[k \in 1..n |-> k] : n \in 0..MaxTexts}
  /\ openaiClient = "null"
  /\ batchStart = 0
  /\ results = <<>>
  /\ embedPc = "start"
  /\ apiCalls = <<>>
  /\ inFlight = {}
  /\ failedBatches = {}
EmbedIdle ==
  /\ texts = <<>>
  /\ openaiClient = "null"
  /\ batchStart = 0
  /\ results = <<>>
  /\ embedPc = "idle"
  /\ apiCalls = <<>>
  /\ inFlight = {}
  /\ failedBatches = {}

\* part_000:246-259 getOpenAIClient, the constructor succeeds, and part_000:289-301
EmbedClientReady ==
  /\ embedPc = "start"
  /\ openaiClient' = "client"
  /\ batchStart' = 0
  /\ results' = <<>>
  /\ embedPc' = "loop"
  /\ UNCHANGED <<texts, apiCalls, inFlight, failedBatches, splitVars, extractVars, queryVars,
                 laterVars>>

\* part_000:253-256 the constructor throws, getOpenAIClient returns null; part_000:291-294
EmbedClientUnavailable ==
  /\ embedPc = "start"
  /\ openaiClient = "null"
  /\ results' = AllNull(texts)
  /\ embedPc' = "done"
  /\ UNCHANGED <<texts, openaiClient, batchStart, apiCalls, inFlight, failedBatches,
                 splitVars, extractVars, queryVars,
                 laterVars>>

\* part_000:303-312: the loop condition holds, the request for the batch is sent and awaited
EmbedRequestBatch ==
  /\ embedPc = "loop"
  /\ batchStart < Len(texts)
  /\ apiCalls' = Append(apiCalls, BatchAt(batchStart))
  /\ inFlight' = inFlight \cup {Len(apiCalls) + 1}
  /\ embedPc' = "await"
  /\ UNCHANGED <<texts, openaiClient, batchStart, results, failedBatches,
                 splitVars, extractVars, queryVars,
                 laterVars>>

\* part_000:315-317: the request is answered
EmbedBatchSucceeds ==
  /\ embedPc = "await"
  /\ results' = PushEmbeddings(results, BatchAt(batchStart))
  /\ inFlight' = inFlight \ {Len(apiCalls)}
  /\ batchStart' = NextBatchStart(batchStart)
  /\ embedPc' = "loop"
  /\ UNCHANGED <<texts, openaiClient, apiCalls, failedBatches,
                 splitVars, extractVars, queryVars,
                 laterVars>>

\* part_000:318-322: the request fails
EmbedBatchFails ==
  /\ embedPc = "await"
  /\ results' = PushNulls(results, BatchAt(batchStart))
  /\ inFlight' = inFlight \ {Len(apiCalls)}
  /\ failedBatches' = failedBatches \cup {Len(apiCalls)}
  /\ batchStart' = NextBatchStart(batchStart)
  /\ embedPc' = PcAfterBatchFailure
  /\ UNCHANGED <<texts, openaiClient, apiCalls, splitVars, extractVars, queryVars,
                 laterVars>>

\* part_000:303 the loop condition fails; part_000:325-326 return results
EmbedReturn ==
  /\ embedPc = "loop"
  /\ batchStart >= Len(texts)
  /\ embedPc' = "done"
  /\ UNCHANGED <<texts, openaiClient, batchStart, results, apiCalls, inFlight, failedBatches,
                 splitVars, extractVars, queryVars,
                 laterVars>>

EmbedNext ==
  \/ EmbedClientReady
  \/ EmbedClientUnavailable
  \/ EmbedRequestBatch
  \/ EmbedBatchSucceeds
  \/ EmbedBatchFails
  \/ EmbedReturn

\* the number of the batch (of 20) that holds input position p, and the number of batches
BatchOf(p) == ((p - 1) \div 20) + 1
BatchCount(n) == (n + 19) \div 20

\* C6 (as stated): the result has the length of the input; position p is null
\* exactly when the batch holding input p failed and holds the embedding of
\* input p otherwise.
C6_NullIffBatchFailed ==
  embedPc = "done" =>
    /\ Len(results) = Len(texts)
    /\ \A p \in 1..Len(texts) :
         /\ (results[p] = NullEmbedding) <=> (BatchOf(p) \in failedBatches)
         /\ (results[p] # NullEmbedding) => (results[p] = EmbeddingOf(texts[p]))

\* C6 (amended): the result has the length of the input; position p is null
\* exactly when the batch holding input p failed or the embedding client
\* could not be constructed (then every position is null and no batch is
\* requested), and holds the embedding of input p otherwise; 25 inputs give
\* the batches 20 + 5 and, when the second fails, 20 vectors and 5 nulls.
C6_NullIffBatchFailedOrNoClient ==
  embedPc = "done" =>
    /\ Len(results) = Len(texts)
    /\ \A p \in 1..Len(texts) :
         /\ (results[p] = NullEmbedding)
              <=> (openaiClient = "null" \/ BatchOf(p) \in failedBatches)
         /\ (results[p] # NullEmbedding) => (results[p] = EmbeddingOf(texts[p]))
    /\ (Len(texts) = 25 /\ failedBatches = {2}) =>
         /\ Len(apiCalls) = 2
         /\ Len(apiCalls[1]) = 20
         /\ Len(apiCalls[2]) = 5
         /\ results = [p \in 1..25 |-> IF p <= 20 THEN EmbeddingOf(texts[p]) ELSE NullEmbedding]
C6_Witness ==
  /\ embedPc = "done"
  /\ Len(texts) = 25
  /\ failedBatches = {2}
  /\ Len(results) = 25
  /\ results[20] # NullEmbedding
  /\ results[21] = NullEmbedding

\* C7: the batch requests are issued one after another in input order: at
\* most one request is unanswered and it is the latest, the k-th request
\* carries the k-th batch of at most 20 texts (so no batch is requested
\* twice), and once the loop has run to its end every batch has been
\* requested, whichever batches failed.
C7_SequentialBatches ==
  /\ Cardinality(inFlight) <= 1
  /\ inFlight \subseteq {Len(apiCalls)}
  /\ \A k \in 1..Len(apiCalls) :
       /\ Len(apiCalls[k]) >= 1
       /\ Len(apiCalls[k]) <= 20
       /\ apiCalls[k] =
            SubSeq(texts, (k - 1) * 20 + 1, IF k * 20 < Len(texts) THEN k * 20 ELSE Len(texts))
  /\ failedBatches \subseteq 1..Len(apiCalls)
  /\ (embedPc = "done" /\ openaiClient # "null") => Len(apiCalls) = BatchCount(Len(texts))
C7_Witness ==
  /\ embedPc = "done"
  /\ Len(texts) = 41
  /\ Len(apiCalls) = 3
  /\ failedBatches = {1, 2}

(***************************************************************************)
(* Vector Store Adapter: queryEmbeddings and useFallbackContext,           *)
(* src/lib/rag/pinecone-client.ts:146-269                                  *)
(*                                                                         *)
(* A component of an embedding is a number of thousandths (20 is 0.02); a  *)
(* score is a number of hundredths (85 is 0.85). A corpus text is named by *)
(* its leading words.                                                      *)
(***************************************************************************)
knowledgeBase ==
  <<
    [ text |-> "Small Business Relief for UAE Corporate Tax",
      keywords |->
        { <<"s","m","a","l","l"," ","b","u","s","i","n","e","s","s">>,
          <<"r","e","l","i","e","f">>,
          <<"3"," ","m","i","l","l","i","o","n">>,
          <<"e","x","e","m","p","t">>,
          <<"r","e","v","e","n","u","e">>,
          <<"t","h","r","e","s","h","o","l","d">> } ],
    [ text |-> "UAE Corporate Tax Registration Process",
      keywords |->
        { <<"r","e","g","i","s","t","r","a","t","i","o","n">>,
          <<"r","e","g","i","s","t","e","r">>,
          <<"F","T","A">>,
          <<"p","o","r","t","a","l">>,
          <<"t","r","a","d","e"," ","l","i","c","e","n","s","e">>,
          <<"T","R","N">> } ],
    [ text |-> "UAE Corporate Tax Rates",
      keywords |->
        { <<"t","a","x"," ","r","a","t","e","s">>,
          <<"9","%">>,
          <<"3","7","5",",","0","0","0">>,
          <<"f","r","e","e"," ","z","o","n","e">>,
          <<"0","%">>,
          <<"m","u","l","t","i","n","a","t","i","o","n","a","l">> } ],
    [ text |-> "UAE Corporate Tax Compliance",
      keywords |->
        { <<"c","o","m","p","l","i","a","n","c","e">>,
          <<"r","e","t","u","r","n","s">>,
          <<"f","i","l","i","n","g">>,
          <<"b","o","o","k","k","e","e","p","i","n","g">>,
          <<"r","e","c","o","r","d","s">>,
          <<"p","e","n","a","l","t","i","e","s">>,
          <<"a","u","d","i","t","s">> } ],
    [ text |-> "UAE Corporate Tax Deductions",
      keywords |->
        { <<"d","e","d","u","c","t","i","o","n","s">>,
          <<"e","x","p","e","n","s","e","s">>,
          <<"i","n","t","e","r","e","s","t">>,
          <<"d","e","p","r","e","c","i","a","t","i","o","n">>,
          <<"d","o","n","a","t","i","o","n","s">>,
          <<"e","n","t","e","r","t","a","i","n","m","e","n","t">>,
          <<"b","a","d"," ","d","e","b","t","s">> } ] >>
GeneralKnowledgeText == "UAE Corporate Tax is a federal tax imposed on business profits"

\* pinecone-client.ts:257 and 266
FallbackMatchScore == 85
FallbackGeneralScore == 75

\* Number.prototype.toString for a number of thousandths
DigitChars == <<"0","1","2","3","4","5","6","7","8","9">>
RECURSIVE NatToString(_)
NatToString(n) ==
  IF n < 10 THEN <<DigitChars[n + 1]>>
  ELSE NatToString(n \div 10) \o <<DigitChars[(n % 10) + 1]>>
FractionToString(f) ==
  LET d1 == DigitChars[(f \div 100) + 1]
      d2 == DigitChars[((f \div 10) % 10) + 1]
      d3 == DigitChars[(f % 10) + 1]
  IN  IF f % 10 # 0 THEN <<d1, d2, d3>>
      ELSE IF f % 100 # 0 THEN <<d1, d2>>
      ELSE <<d1>>
NumberToString(n) ==
  LET a == IF n < 0 THEN 0 - n ELSE n
  IN  (IF n < 0 THEN <<"-">> ELSE <<>>)
        \o NatToString(a \div 1000)
        \o (IF a % 1000 = 0 THEN <<>> ELSE <<".">> \o FractionToString(a % 1000))

\* pinecone-client.ts:226  queryEmbedding.slice(0, 10).join(' ')
EmbeddingPrefixLen == 10
EmbeddingString(emb) ==
  LET head == Slice(emb, 0, EmbeddingPrefixLen)
  IN  Join([k \in 1..Len(head) |-> NumberToString(head[k])], <<" ">>)

\* pinecone-client.ts:237-242: the topic inferred from the embedding string
TopicCorporateTax == <<"c","o","r","p","o","r","a","t","e"," ","t","a","x">>
TopicSmallBusinessRelief ==
  <<"s","m","a","l","l"," ","b","u","s","i","n","e","s","s"," ","r","e","l","i","e","f">>
TopicRegistration == <<"r","e","g","i","s","t","r","a","t","i","o","n">>
TopicTaxRates == <<"t","a","x"," ","r","a","t","e","s">>
InferTopicTaxRatesFirst(embeddingStr) ==
  IF Includes(embeddingStr, <<"0",".","0","1">>)
       /\ Includes(embeddingStr, <<"-","0",".","0","3">>)
    THEN TopicTaxRates
  ELSE IF Includes(embeddingStr, <<"0",".","0","2">>)
            /\ Includes(embeddingStr, <<"-","0",".","0","1">>)
    THEN TopicSmallBusinessRelief
  ELSE IF Includes(embeddingStr, <<"0",".","0","3">>)
            /\ Includes(embeddingStr, <<"-","0",".","0","2">>)
    THEN TopicRegistration
  ELSE TopicCorporateTax
InferTopic(embeddingStr) ==
  IF Includes(embeddingStr, <<"0",".","0","2">>) /\ Includes(embeddingStr, <<"-","0",".","0","1">>)
    THEN TopicSmallBusinessRelief
  ELSE IF Includes(embeddingStr, <<"0",".","0","3">>)
            /\ Includes(embeddingStr, <<"-","0",".","0","2">>)
    THEN TopicRegistration
  ELSE IF Includes(embeddingStr, <<"0",".","0","1">>)
            /\ Includes(embeddingStr, <<"-","0",".","0","3">>)
    THEN TopicTaxRates
  ELSE TopicCorporateTax

\* pinecone-client.ts:248-250  item.keywords.some(k => userQuery.toLowerCase().includes(k.toLowerCase()))
KeywordsOverlap(item, userQuery) ==
  \E keyword \in item.keywords : Includes(Fold(userQuery), Fold(keyword))

\* pinecone-client.ts:255-259: a corpus entry as a context match
KnowledgeMatch(item) ==
  [ score |-> FallbackMatchScore,
    text |-> <<item.text>>,
    metadata |-> <<[source |-> "fallback-knowledge-base"]>> ]
\* pinecone-client.ts:264-268
GeneralMatch ==
  [ score |-> FallbackGeneralScore,
    text |-> <<GeneralKnowledgeText>>,
    metadata |-> <<[source |-> "fallback-general-knowledge"]>> ]

\* pinecone-client.ts:247-251  knowledgeBase.filter(...)
RECURSIVE FilterOverlapping(_, _)
FilterOverlapping(items, userQuery) ==
  IF items = <<>> THEN <<>>
  ELSE (IF KeywordsOverlap(Head(items), userQuery) THEN <<Head(items)>> ELSE <<>>)
         \o FilterOverlapping(Tail(items), userQuery)

\* pinecone-client.ts:195-269 (the argument is an array of numbers)
useFallbackContextMixed(emb) ==
  LET matchingContexts == FilterOverlapping(knowledgeBase, InferTopic(EmbeddingString(emb)))
  IN  [k \in 1..Len(matchingContexts) |-> KnowledgeMatch(matchingContexts[k])] \o <<GeneralMatch>>
useFallbackContext(emb) ==
  LET matchingContexts == FilterOverlapping(knowledgeBase, InferTopic(EmbeddingString(emb)))
  IN  IF Len(matchingContexts) > 0
      THEN [k \in 1..Len(matchingContexts) |-> KnowledgeMatch(matchingContexts[k])]
      ELSE <<GeneralMatch>>

\* pinecone-client.ts:166-170: the request given to index.query
QueryRequest(emb, k, f) == [vector |-> emb, topK |-> k, includeMetadata |-> TRUE]

\* pinecone-client.ts:174  !queryResult.matches || queryResult.matches.length === 0
HasNoMatchesUndefinedOnly(answer) == answer.kind = "undefined"
HasNoMatches(answer) == answer.kind = "undefined" \/ Len(answer.matches) = 0

\* pinecone-client.ts:179-183: a store match as a context match
MapMatch(m) ==
  [ score |-> m.score,
    text |-> IF m.metadata # Absent THEN <<m.metadata[1].text>> ELSE Absent,
    metadata |-> m.metadata ]
MapMatches(ms) == [k \in 1..Len(ms) |-> MapMatch(ms[k])]

\* pinecone-client.ts:184-187: the catch block of the query
ResultOnQueryErrorEmpty(emb) == <<>>
ResultOnQueryError(emb) == useFallbackContext(emb)

\* the embeddings queried with: up to MaxEmbeddingLen components, and one
\* embedding of eleven components whose last lies beyond the prefix read
MaxEmbeddingLen == 2
ComponentValues == {20, -10, 30, -20, 10, -30, 21, 1500}
LongEmbedding == [k \in 1..11 |-> IF k = 1 THEN 20 ELSE IF k = 11 THEN -10 ELSE 1500]
\* embeddings whose string has the patterns of two topics
TwoTopicEmbeddings == {<<20, -10, -30>>, <<30, -20, -10>>, <<30, -20, 10, -30>>}
QueryEmbeddings ==
  UNION {[1..n -> ComponentValues] : n \in 0..MaxEmbeddingLen}
    \cup {LongEmbedding} \cup TwoTopicEmbeddings
QueryFilters == {Absent, <<[userId |-> "u1"]>>}
\* what the store holds and may answer with
StoreMatchU1 == [score |-> 91, metadata |-> <<[text |-> "chunk of a.pdf", userId |-> "u1"]>>]
StoreMatchU2 == [score |-> 40, metadata |-> <<[text |-> "chunk of b.pdf", userId |-> "u2"]>>]
StoreMatchBare == [score |-> 12, metadata |-> Absent]
StoreAnswers ==
  { [kind |-> "undefined", matches |-> <<>>],
    [kind |-> "matches", matches |-> <<>>],
    [kind |-> "matches", matches |-> <<StoreMatchU1>>],
    [kind |-> "matches", matches |-> <<StoreMatchU1, StoreMatchU2>>],
    [kind |-> "matches", matches |-> <<StoreMatchU2, StoreMatchBare>>] }
NoAnswer == [kind |-> "none", matches |-> <<>>]
ThrownAnswer == [kind |-> "throws", matches |-> <<>>]

QueryInit ==
  /\ queryEmbedding \in QueryEmbeddings
  /\ topK \in {3, 5}
  /\ filter \in QueryFilters
  /\ pineconeClient = "null"
  /\ index = "unset"
  /\ storeRequests = <<>>
  /\ storeAnswer = NoAnswer
  /\ queryResult = <<>>
  /\ queryPc = "start"
QueryIdle ==
  /\ queryEmbedding = <<>>
  /\ topK = 5
  /\ filter = Absent
  /\ pineconeClient = "null"
  /\ index = "unset"
  /\ storeRequests = <<>>
  /\ storeAnswer = NoAnswer
  /\ queryResult = <<>>
  /\ queryPc = "idle"

\* pinecone-client.ts:5-26 and 80-92: the client is constructed, pinecone.index returns
QueryIndexReady ==
  /\ queryPc = "start"
  /\ pineconeClient' = "client"
  /\ index' = "index"
  /\ queryPc' = "query"
  /\ UNCHANGED <<queryEmbedding, topK, filter, storeRequests, storeAnswer, queryResult,
                 splitVars, extractVars, embedVars,
                 laterVars>>

\* pinecone-client.ts:20-23 the constructor throws; 83-86 ensureIndexExists returns null; 157-160
QueryClientUnavailable ==
  /\ queryPc = "start"
  /\ pineconeClient = "null"
  /\ index' = "null"
  /\ queryResult' = useFallbackContext(queryEmbedding)
  /\ queryPc' = "done"
  /\ UNCHANGED <<queryEmbedding, topK, filter, pineconeClient, storeRequests, storeAnswer,
                 splitVars, extractVars, embedVars,
                 laterVars>>

\* pinecone-client.ts:93-96 pinecone.index throws, ensureIndexExists returns null; 157-160
QueryIndexAccessFails ==
  /\ queryPc = "start"
  /\ pineconeClient' = "client"
  /\ index' = "null"
  /\ queryResult' = useFallbackContext(queryEmbedding)
  /\ queryPc' = "done"
  /\ UNCHANGED <<queryEmbedding, topK, filter, storeRequests, storeAnswer,
                 splitVars, extractVars, embedVars,
                 laterVars>>

\* pinecone-client.ts:166-170: the query is sent and awaited
QuerySend ==
  /\ queryPc = "query"
  /\ storeRequests' = Append(storeRequests, QueryRequest(queryEmbedding, topK, filter))
  /\ queryPc' = "await"
  /\ UNCHANGED <<queryEmbedding, topK, filter, pineconeClient, index, storeAnswer, queryResult,
                 splitVars, extractVars, embedVars,
                 laterVars>>

\* pinecone-client.ts:172-183: the store answers
QueryStoreAnswers ==
  /\ queryPc = "await"
  /\ \E answer \in StoreAnswers :
       /\ storeAnswer' = answer
       /\ queryResult' =
            IF HasNoMatches(answer) THEN useFallbackContext(queryEmbedding)
            ELSE MapMatches(answer.matches)
  /\ queryPc' = "done"
  /\ UNCHANGED <<queryEmbedding, topK, filter, pineconeClient, index, storeRequests,
                 splitVars, extractVars, embedVars,
                 laterVars>>

\* pinecone-client.ts:184-187: the query call throws
QueryStoreThrows ==
  /\ queryPc = "await"
  /\ storeAnswer' = ThrownAnswer
  /\ queryResult' = ResultOnQueryError(queryEmbedding)
  /\ queryPc' = "done"
  /\ UNCHANGED <<queryEmbedding, topK, filter, pineconeClient, index, storeRequests,
                 splitVars, extractVars, embedVars,
                 laterVars>>

QueryNext ==
  \/ QueryIndexReady
  \/ QueryClientUnavailable
  \/ QueryIndexAccessFails
  \/ QuerySend
  \/ QueryStoreAnswers
  \/ QueryStoreThrows

\* the filter a request carries, absent when it has none
RequestFilter(req) == IF "filter" \in DOMAIN req THEN <<req.filter>> ELSE Absent
SourceOf(m) ==
  IF m.metadata # Absent /\ "source" \in DOMAIN m.metadata[1] THEN m.metadata[1].source ELSE ""
FallbackSources == {"fallback-knowledge-base", "fallback-general-knowledge"}
IsFallbackResult(r) == Len(r) >= 1 /\ \A k \in 1..Len(r) : SourceOf(r[k]) \in FallbackSources

\* C4: every query request the store receives carries the vector, topK,
\* includeMetadata = true and the filter queryEmbeddings was given, and
\* carries no filter when none was given.
C4_RequestCarriesFilter ==
  \A r \in 1..Len(storeRequests) :
    /\ storeRequests[r].vector = queryEmbedding
    /\ storeRequests[r].topK = topK
    /\ storeRequests[r].includeMetadata = TRUE
    /\ RequestFilter(storeRequests[r]) = filter

\* C8: queryEmbeddings returns at least one match in every outcome: index
\* reference null, matches returned, no matches, query call throws.
C8_NeverEmpty == queryPc = "done" => Len(queryResult) >= 1
C8_Witness ==
  /\ queryPc = "done"
  /\ storeAnswer = [kind |-> "matches", matches |-> <<>>]
  /\ Len(queryResult) >= 1

\* C9: the result is the static fallback exactly when the index reference is
\* unavailable, the store returned no matches, or the query call threw; in
\* every other case it is the store's matches.
C9_FallbackExactlyWhen ==
  queryPc = "done" =>
    LET unavailable == index = "null"
        noMatches == storeAnswer.kind = "undefined"
                       \/ (storeAnswer.kind = "matches" /\ Len(storeAnswer.matches) = 0)
        threw == storeAnswer.kind = "throws"
    IN  /\ IsFallbackResult(queryResult) <=> (unavailable \/ noMatches \/ threw)
        /\ ~(unavailable \/ noMatches \/ threw) =>
             /\ Len(queryResult) = Len(storeAnswer.matches)
             /\ \A k \in 1..Len(queryResult) :
                  /\ queryResult[k].score = storeAnswer.matches[k].score
                  /\ queryResult[k].metadata = storeAnswer.matches[k].metadata
C9_Witness ==
  /\ queryPc = "done"
  /\ storeAnswer.kind = "throws"
  /\ IsFallbackResult(queryResult)

\* C10: a fallback result is either the corpus entries whose keywords overlap
\* the inferred topic, each with score 0.85, or, when no entry overlaps,
\* exactly one general-knowledge entry with score 0.75.
C10_FallbackScores ==
  (queryPc = "done" /\ IsFallbackResult(queryResult)) =>
    LET topic == InferTopic(EmbeddingString(queryEmbedding))
        overlapping == {e \in 1..Len(knowledgeBase) : KeywordsOverlap(knowledgeBase[e], topic)}
    IN  IF overlapping # {}
        THEN /\ Len(queryResult) = Cardinality(overlapping)
             /\ \A k \in 1..Len(queryResult) :
                  /\ queryResult[k].score = 85
                  /\ SourceOf(queryResult[k]) = "fallback-knowledge-base"
             /\ {queryResult[k].text : k \in 1..Len(queryResult)}
                  = {<<knowledgeBase[e].text>> : e \in overlapping}
        ELSE /\ Len(queryResult) = 1
             /\ queryResult[1].score = 75
             /\ SourceOf(queryResult[1]) = "fallback-general-knowledge"
C10_Witness ==
  /\ queryPc = "done"
  /\ index = "null"
  /\ Len(queryResult) = 1
  /\ queryResult[1].score = 85
  /\ queryResult[1].text = <<"UAE Corporate Tax Registration Process">>

\* C24: the fallback returns exactly one entry: the patterns of the topics
\* are tested in the order small business relief, registration, tax rates
\* and the first that is found decides; each of these topics overlaps the
\* keywords of exactly one corpus entry, which is the entry returned, and
\* the default topic overlaps none, so the general entry is returned.
OverlappingEntries(topic) ==
  {e \in 1..Len(knowledgeBase) : KeywordsOverlap(knowledgeBase[e], topic)}
HasPattern(s, positive, negative) == Includes(s, positive) /\ Includes(s, negative)
C24_ExactlyOneEntry ==
  /\ OverlappingEntries(TopicSmallBusinessRelief) = {1}
  /\ OverlappingEntries(TopicRegistration) = {2}
  /\ OverlappingEntries(TopicTaxRates) = {3}
  /\ OverlappingEntries(TopicCorporateTax) = {}
  /\ (queryPc = "done" /\ IsFallbackResult(queryResult)) =>
       LET s == EmbeddingString(queryEmbedding)
       IN  /\ Len(queryResult) = 1
           /\ queryResult[1].text =
                IF HasPattern(s, <<"0",".","0","2">>, <<"-","0",".","0","1">>)
                  THEN <<"Small Business Relief for UAE Corporate Tax">>
                ELSE IF HasPattern(s, <<"0",".","0","3">>, <<"-","0",".","0","2">>)
                  THEN <<"UAE Corporate Tax Registration Process">>
                ELSE IF HasPattern(s, <<"0",".","0","1">>, <<"-","0",".","0","3">>)
                  THEN <<"UAE Corporate Tax Rates">>
                ELSE <<GeneralKnowledgeText>>
C24_Witness ==
  /\ queryPc = "done"
  /\ IsFallbackResult(queryResult)
  /\ queryEmbedding = <<20, -10, -30>>
  /\ HasPattern(EmbeddingString(queryEmbedding), <<"0",".","0","1">>, <<"-","0",".","0","3">>)
  /\ Len(queryResult) = 1
  /\ queryResult[1].text = <<"Small Business Relief for UAE Corporate Tax">>

(***************************************************************************)
(* formatContextForPrompt (part_000:363-375).  A match is a record of its  *)
(* text, its optional score and its optional metadata; a score is held in  *)
(* thousandths (853 = 0.853), so score * 100 has exactly one decimal.      *)
(***************************************************************************)
StrContextOpen == <<"[","C","o","n","t","e","x","t"," ">>
StrRelevanceOpen == <<" ","(","R","e","l","e","v","a","n","c","e",":"," ">>
StrRelevanceClose == <<"%",")">>
StrDocument == <<"D","o","c","u","m","e","n","t">>

\* part_000:371  (context.score * 100).toFixed(1)
PercentToFixed1(score) == NatToString(score \div 10) \o <<".">> \o <<DigitChars[(score % 10) + 1]>>

\* part_000:370  context.metadata?.source || 'Document'
SourceOf1(context) ==
  IF context.metadata # Absent /\ context.metadata[1].source # Absent
        /\ context.metadata[1].source[1] # <<>>
  THEN context.metadata[1].source[1]
  ELSE StrDocument

\* part_000:371  context.score ? ` (Relevance: ...%)` : ''
Relevance(context) ==
  IF context.score # Absent /\ context.score[1] # 0
  THEN StrRelevanceOpen \o PercentToFixed1(context.score[1]) \o StrRelevanceClose
  ELSE <<>>

\* part_000:372  index + 1 (index is the 0-based position of Array.prototype.map)
ContextNumberZeroBased(i) == i
ContextNumber(i) == i + 1

\* part_000:372  `[Context ${index + 1}]${score} ${source}:\n${context.text}\n`
FormatBlock(context, i) ==
  StrContextOpen \o NatToString(ContextNumber(i)) \o <<"]">> \o Relevance(context)
    \o <<" ">> \o SourceOf1(context) \o <<":", "\n">> \o context.text \o <<"\n">>

\* part_000:363-375; the argument is Absent when the caller passes null or undefined
formatContextForPrompt(cs) ==
  IF cs = Absent \/ Len(cs[1]) = 0 THEN <<>>
  ELSE Join([i \in 1..Len(cs[1]) |-> FormatBlock(cs[1][i], i - 1)], <<"\n">>)

\* The arguments the formatter is called with.
MaxContexts == 2
ContextTexts == {<<"T","a","x"," ","t","e","x","t">>, <<"V","A","T">>}
ContextScores == {Absent, <<0>>, <<5>>, <<853>>, <<1000>>}
ContextMetadata ==
  {Absent, <<[source |-> Absent]>>, <<[source |-> <<(<<"a",".","p","d","f">>)>>]>>}
ContextValues == [text : ContextTexts, score : ContextScores, metadata : ContextMetadata]
RECURSIVE SeqsUpTo(_, _)
SeqsUpTo(S, n) ==
  IF n = 0 THEN {<<>>}
  ELSE LET shorter == SeqsUpTo(S, n - 1)
       IN  shorter \cup {Append(q, x) : q \in {r \in shorter : Len(r) = n - 1}, x \in S}
FormatInputs == {Absent} \cup {<<q>> : q \in SeqsUpTo(ContextValues, MaxContexts)}

FormatInit ==
  /\ contexts \in FormatInputs
  /\ formatted = <<>>
  /\ formatPc = "ready"
FormatIdle ==
  /\ contexts = Absent
  /\ formatted = <<>>
  /\ formatPc = "idle"

CallFormat ==
  /\ formatPc = "ready"
  /\ formatted' = formatContextForPrompt(contexts)
  /\ formatPc' = "done"
  /\ UNCHANGED <<contexts, notFormatVars>>

\* ---- claims on the formatter ----
StrContext1 == <<"[","C","o","n","t","e","x","t"," ","1","]">>
StrContext2 == <<"[","C","o","n","t","e","x","t"," ","2","]">>
\* the block the specification describes for the match at 1-based position n
DescribedBlock(context, n) ==
  StrContextOpen \o NatToString(n) \o <<"]">> \o StrRelevanceOpen
    \o PercentToFixed1(context.score[1]) \o StrRelevanceClose
    \o <<" ">> \o SourceOf1(context) \o <<":", "\n">> \o context.text \o <<"\n">>
AllScored(cs) == \A i \in 1..Len(cs) : cs[i].score # Absent

\* C15: every match that carries a score in [0,1], the score 0 included, is
\* rendered in input order as "[Context N] (Relevance: XX.X%) <source>:\n<text>\n",
\* the blocks separated by a blank line, none dropped or reordered.
C15_EveryMatchWithRelevance ==
  (formatPc = "done" /\ contexts # Absent /\ Len(contexts[1]) > 0 /\ AllScored(contexts[1]))
    => formatted = Join([i \in 1..Len(contexts[1]) |-> DescribedBlock(contexts[1][i], i)],
                        <<"\n">>)

\* C16: an empty or missing sequence gives the empty string; exactly one match
\* gives a single block that contains "[Context 1]" and no "[Context 2]".
C16_EmptyAndSingle ==
  formatPc = "done" =>
    /\ (contexts = Absent \/ Len(contexts[1]) = 0) => formatted = <<>>
    /\ (contexts # Absent /\ Len(contexts[1]) = 1) =>
         /\ Includes(formatted, StrContext1)
         /\ ~Includes(formatted, StrContext2)
         /\ Len(SplitLines(formatted)) = 3
         /\ SubSeq(formatted, 1, Len(StrContextOpen)) = StrContextOpen
         /\ formatted[Len(formatted)] = "\n"
C16_Witness ==
  /\ formatPc = "done"
  /\ contexts # Absent
  /\ Len(contexts[1]) = 1
  /\ Includes(formatted, StrContext1)


(***************************************************************************)
(* storeEmbeddings (pinecone-client.ts:101-144) and deleteEmbeddings       *)
(* (pinecone-client.ts:271-300).  Both obtain the index reference through  *)
(* ensureIndexExists, which shares the module's pineconeClient with        *)
(* queryEmbeddings.  upsertCalls and deleteCalls record what the vector    *)
(* store received.                                                         *)
(***************************************************************************)
MaxDocuments == 201
\* pinecone-client.ts:126  const batchSize = 100
upsertBatchSize == 100

\* pinecone-client.ts:116-123  the vector of a document; the spread of doc.metadata
\* comes after text, so a text member of the metadata wins
VectorOf(doc) ==
  [id |-> doc.id, values |-> doc.embedding, metadata |-> doc.metadata @@ [text |-> doc.text]]
VectorsOf(docs) == [k \in 1..Len(docs) |-> VectorOf(docs[k])]

\* pinecone-client.ts:128  vectors.slice(i, i + batchSize)
UpsertBatchAt(docs, i) == Slice(VectorsOf(docs), i, i + upsertBatchSize)
\* pinecone-client.ts:127  i += batchSize
NextUpsertStart(i) == i + upsertBatchSize

\* pinecone-client.ts:133-136: the catch block of a batch ends the iteration, the loop goes on
PcAfterUpsertFailureAbort == "done"
PcAfterUpsertFailure == "loop"

\* pinecone-client.ts:138-139  return true, whatever upserts failed
ReturnAfterLoopUnlessAllFailed(calls, failed) == calls = <<>> \/ failed # 1..Len(calls)
ReturnAfterLoop(calls, failed) == TRUE

\* pinecone-client.ts:110-113 and 281-284  if (!index) return false
ReturnOnNullIndexTrue == TRUE
ReturnOnNullIndex == FALSE

DocumentOf(k) ==
  [id |-> k, text |-> k, embedding |-> <<k>>, metadata |-> [userId |-> "u1"]]
StoreInputs == {[k \in 1..n |-> DocumentOf(k)] : n \in 0..MaxDocuments}

StoreInit ==
  /\ documents \in StoreInputs
  /\ storeBatchStart = 0
  /\ upsertCalls = <<>>
  /\ upsertInFlight = {}
  /\ failedUpserts = {}
  /\ storeReturn = Absent
  /\ storePc = "start"
StoreIdle ==
  /\ documents = <<>>
  /\ storeBatchStart = 0
  /\ upsertCalls = <<>>
  /\ upsertInFlight = {}
  /\ failedUpserts = {}
  /\ storeReturn = Absent
  /\ storePc = "idle"

\* pinecone-client.ts:5-26 and 80-92 the index reference is returned; 116-126
StoreIndexReady ==
  /\ storePc = "start"
  /\ pineconeClient' = "client"
  /\ index' = "index"
  /\ storeBatchStart' = 0
  /\ storePc' = "loop"
  /\ UNCHANGED <<documents, upsertCalls, upsertInFlight, failedUpserts, storeReturn, storeFrame>>

\* pinecone-client.ts:20-23 the constructor throws; 83-86 ensureIndexExists returns null; 110-113
StoreClientUnavailable ==
  /\ storePc = "start"
  /\ pineconeClient = "null"
  /\ index' = "null"
  /\ storeReturn' = <<ReturnOnNullIndex>>
  /\ storePc' = "done"
  /\ UNCHANGED <<documents, storeBatchStart, upsertCalls, upsertInFlight, failedUpserts,
                 pineconeClient, storeFrame>>

\* pinecone-client.ts:93-96 pinecone.index throws, ensureIndexExists returns null; 110-113
StoreIndexAccessFails ==
  /\ storePc = "start"
  /\ pineconeClient' = "client"
  /\ index' = "null"
  /\ storeReturn' = <<ReturnOnNullIndex>>
  /\ storePc' = "done"
  /\ UNCHANGED <<documents, storeBatchStart, upsertCalls, upsertInFlight, failedUpserts,
                 storeFrame>>

\* pinecone-client.ts:127-131: the loop condition holds, the batch is upserted and awaited
StoreUpsertBatch ==
  /\ storePc = "loop"
  /\ storeBatchStart < Len(documents)
  /\ upsertCalls' = Append(upsertCalls, UpsertBatchAt(documents, storeBatchStart))
  /\ upsertInFlight' = upsertInFlight \cup {Len(upsertCalls) + 1}
  /\ storePc' = "await"
  /\ UNCHANGED <<documents, storeBatchStart, failedUpserts, storeReturn,
                 pineconeClient, index, storeFrame>>

\* pinecone-client.ts:131-132: the upsert returns
StoreUpsertSucceeds ==
  /\ storePc = "await"
  /\ upsertInFlight' = upsertInFlight \ {Len(upsertCalls)}
  /\ storeBatchStart' = NextUpsertStart(storeBatchStart)
  /\ storePc' = "loop"
  /\ UNCHANGED <<documents, upsertCalls, failedUpserts, storeReturn,
                 pineconeClient, index, storeFrame>>

\* pinecone-client.ts:133-136: the upsert throws
StoreUpsertFails ==
  /\ storePc = "await"
  /\ upsertInFlight' = upsertInFlight \ {Len(upsertCalls)}
  /\ failedUpserts' = failedUpserts \cup {Len(upsertCalls)}
  /\ storeBatchStart' = NextUpsertStart(storeBatchStart)
  /\ storePc' = PcAfterUpsertFailure
  /\ UNCHANGED <<documents, upsertCalls, storeReturn, pineconeClient, index, storeFrame>>

\* pinecone-client.ts:127 the loop condition fails; 138-139 return true
StoreReturn ==
  /\ storePc = "loop"
  /\ storeBatchStart >= Len(documents)
  /\ storeReturn' = <<ReturnAfterLoop(upsertCalls, failedUpserts)>>
  /\ storePc' = "done"
  /\ UNCHANGED <<documents, storeBatchStart, upsertCalls, upsertInFlight, failedUpserts,
                 pineconeClient, index, storeFrame>>

StoreNext ==
  \/ StoreIndexReady
  \/ StoreClientUnavailable
  \/ StoreIndexAccessFails
  \/ StoreUpsertBatch
  \/ StoreUpsertSucceeds
  \/ StoreUpsertFails
  \/ StoreReturn

\* deleteEmbeddings(indexName, namespace, filter)
DeleteNamespaces == {"(Default)", "docs"}
DeleteFilters == {[userId |-> "u1"], [userId |-> "u2"], [fileName |-> "a.pdf"]}
\* pinecone-client.ts:287-289  index.namespace(namespace).deleteMany({filter})
DeleteRequest(ns, f) == [namespace |-> ns, filter |-> f]

DeleteInit ==
  /\ deleteNamespace \in DeleteNamespaces
  /\ deleteFilter \in DeleteFilters
  /\ deleteCalls = <<>>
  /\ deleteReturn = Absent
  /\ deletePc = "start"
DeleteIdle ==
  /\ deleteNamespace = "(Default)"
  /\ deleteFilter = [userId |-> "u1"]
  /\ deleteCalls = <<>>
  /\ deleteReturn = Absent
  /\ deletePc = "idle"

\* pinecone-client.ts:5-26 and 80-92 the index reference is returned; 279-289 deleteMany is
\* called and awaited
DeleteIndexReady ==
  /\ deletePc = "start"
  /\ pineconeClient' = "client"
  /\ index' = "index"
  /\ deleteCalls' = Append(deleteCalls, DeleteRequest(deleteNamespace, deleteFilter))
  /\ deletePc' = "await"
  /\ UNCHANGED <<deleteNamespace, deleteFilter, deleteReturn, deleteFrame>>

\* pinecone-client.ts:20-23 the constructor throws; 83-86 ensureIndexExists returns null; 281-284
DeleteClientUnavailable ==
  /\ deletePc = "start"
  /\ pineconeClient = "null"
  /\ index' = "null"
  /\ deleteReturn' = <<ReturnOnNullIndex>>
  /\ deletePc' = "done"
  /\ UNCHANGED <<deleteNamespace, deleteFilter, deleteCalls, pineconeClient, deleteFrame>>

\* pinecone-client.ts:93-96 pinecone.index throws, ensureIndexExists returns null; 281-284
DeleteIndexAccessFails ==
  /\ deletePc = "start"
  /\ pineconeClient' = "client"
  /\ index' = "null"
  /\ deleteReturn' = <<ReturnOnNullIndex>>
  /\ deletePc' = "done"
  /\ UNCHANGED <<deleteNamespace, deleteFilter, deleteCalls, deleteFrame>>

\* pinecone-client.ts:290-291: deleteMany returns
DeleteSucceeds ==
  /\ deletePc = "await"
  /\ deleteReturn' = <<TRUE>>
  /\ deletePc' = "done"
  /\ UNCHANGED <<deleteNamespace, deleteFilter, deleteCalls, pineconeClient, index, deleteFrame>>

\* pinecone-client.ts:292-295: deleteMany (or index.namespace) throws
DeleteFails ==
  /\ deletePc = "await"
  /\ deleteReturn' = <<FALSE>>
  /\ deletePc' = "done"
  /\ UNCHANGED <<deleteNamespace, deleteFilter, deleteCalls, pineconeClient, index, deleteFrame>>

DeleteNext ==
  \/ DeleteIndexReady
  \/ DeleteClientUnavailable
  \/ DeleteIndexAccessFails
  \/ DeleteSucceeds
  \/ DeleteFails

\* ---- claims on the vector-store adapter ----
UpsertBatchCount(n) == (n + 99) \div 100

\* C18: the documents are cut into consecutive batches of at most 100, the
\* k-th upsert carries the k-th batch (so every document is in exactly one
\* upsert), the upserts are issued one after another (at most one is
\* unanswered, and it is the latest), and once the loop has run to its end
\* every batch has been upserted, whichever upserts failed.
C18_UpsertBatches ==
  /\ Cardinality(upsertInFlight) <= 1
  /\ upsertInFlight \subseteq {Len(upsertCalls)}
  /\ \A k \in 1..Len(upsertCalls) :
       /\ Len(upsertCalls[k]) >= 1
       /\ Len(upsertCalls[k]) <= 100
       /\ upsertCalls[k] =
            SubSeq(VectorsOf(documents), (k - 1) * 100 + 1,
                   IF k * 100 < Len(documents) THEN k * 100 ELSE Len(documents))
  /\ failedUpserts \subseteq 1..Len(upsertCalls)
  /\ (storePc = "done" /\ index = "index") =>
       /\ Len(upsertCalls) = UpsertBatchCount(Len(documents))
       /\ storeReturn = <<TRUE>>
C18_Witness ==
  /\ storePc = "done"
  /\ Len(documents) = 201
  /\ failedUpserts = {1, 2}
  /\ Len(upsertCalls) = 3
  /\ Len(upsertCalls[3]) = 1
  /\ upsertCalls[3][1].id = 201

\* C19: ensureIndexExists yields the index reference or null and nothing
\* else (null when the client could not be constructed or the index access
\* threw); an operation that received null has ended without raising,
\* storeEmbeddings and deleteEmbeddings with false and queryEmbeddings with
\* the fallback, and the vector store has received no call.
C19_NullIndexDegrades ==
  /\ index \in {"unset", "index", "null"}
  /\ storeReturn \in {Absent, <<TRUE>>, <<FALSE>>}
  /\ deleteReturn \in {Absent, <<TRUE>>, <<FALSE>>}
  /\ (pineconeClient = "null" /\ index # "unset") => index = "null"
  /\ index = "null" =>
       /\ storeRequests = <<>>
       /\ upsertCalls = <<>>
       /\ deleteCalls = <<>>
       /\ storePc # "idle" => (storePc = "done" /\ storeReturn = <<FALSE>>)
       /\ deletePc # "idle" => (deletePc = "done" /\ deleteReturn = <<FALSE>>)
       /\ queryPc # "idle" =>
            /\ queryPc = "done"
            /\ queryResult = useFallbackContext(queryEmbedding)
            /\ IsFallbackResult(queryResult)
C19_Witness ==
  /\ index = "null"
  /\ pineconeClient = "client"
  /\ deletePc = "done"
  /\ deleteReturn = <<FALSE>>
  /\ deleteCalls = <<>>

\* C25: storeEmbeddings returns true whenever it obtained the index
\* reference, however many upserts failed (all of them included), and
\* false only when the index reference is null; a call that has returned
\* true may have stored nothing.
C25_TrueWheneverIndexObtained ==
  storePc = "done" =>
    /\ storeReturn \in {<<TRUE>>, <<FALSE>>}
    /\ (storeReturn = <<TRUE>>) <=> (index = "index")
    /\ (storeReturn = <<FALSE>>) <=> (index = "null")
    /\ (storeReturn = <<FALSE>>) => upsertCalls = <<>>
C25_Witness ==
  /\ storePc = "done"
  /\ storeReturn = <<TRUE>>
  /\ Len(upsertCalls) = 2
  /\ failedUpserts = {1, 2}
  /\ upsertInFlight = {}


(***************************************************************************)
(* JavaScript values as the upload handler meets them: the result of       *)
(* JSON.parse and of response.json(), and the objects the handler builds.  *)
(* A value is a record of its kind, its text (the characters of a string,  *)
(* the literal of a number), and for an array its items, for an object its *)
(* keys in insertion order and the values of the keys.                     *)
(***************************************************************************)
JValue(k, s, ks, vs) == [kind |-> k, str |-> s, keys |-> ks, items |-> vs]
JUndefined == JValue("undefined", <<>>, <<>>, <<>>)
JNull == JValue("null", <<>>, <<>>, <<>>)
JTrue == JValue("true", <<>>, <<>>, <<>>)
JFalse == JValue("false", <<>>, <<>>, <<>>)
JStr(s) == JValue("string", s, <<>>, <<>>)
JNum(digits) == JValue("number", digits, <<>>, <<>>)
JArr(vs) == JValue("array", <<>>, <<>>, vs)
JObj(ks, vs) == JValue("object", <<>>, ks, vs)

\* the truthiness of a value in a condition
Truthy(v) ==
  \/ v.kind \in {"true", "object", "array"}
  \/ v.kind = "string" /\ v.str # <<>>
  \/ v.kind = "number" /\ v.str # <<"0">>

\* obj[key] = value: a new key is appended, an existing key keeps its place
SetMember(obj, k, v) ==
  IF \E i \in 1..Len(obj.keys) : obj.keys[i] = k
  THEN JObj(obj.keys, [i \in 1..Len(obj.keys) |-> IF obj.keys[i] = k THEN v ELSE obj.items[i]])
  ELSE JObj(Append(obj.keys, k), Append(obj.items, v))
\* an object literal { k1: v1, k2: v2, ... } given as a sequence of <<key, value>>
RECURSIVE ObjectLiteralFrom(_, _, _)
ObjectLiteralFrom(pairs, i, obj) ==
  IF i > Len(pairs) THEN obj
  ELSE ObjectLiteralFrom(pairs, i + 1, SetMember(obj, pairs[i][1], pairs[i][2]))
ObjectLiteral(pairs) == ObjectLiteralFrom(pairs, 1, JObj(<<>>, <<>>))

\* v.key on a value that is neither null nor undefined: undefined unless v is an object
\* that has the key
Get(v, k) ==
  IF v.kind = "object" /\ \E i \in 1..Len(v.keys) : v.keys[i] = k
  THEN v.items[CHOOSE i \in 1..Len(v.keys) : v.keys[i] = k]
  ELSE JUndefined
\* v[0] on a value that is neither null nor undefined: the first item of an array, the
\* first character of a string
First(v) ==
  IF v.kind = "array" /\ Len(v.items) > 0 THEN v.items[1]
  ELSE IF v.kind = "string" /\ Len(v.str) > 0 THEN JStr(<<v.str[1]>>)
  ELSE JUndefined

(***************************************************************************)
(* JSON.parse, for the JSON texts without \u escapes and with integer      *)
(* numbers.  A parse step yields whether it succeeded, the value, and the  *)
(* position after it.                                                      *)
(***************************************************************************)
JsonWhiteSpace == {" ", "\t", "\n", "\r"}
CharAt(s, i) == IF i >= 1 /\ i <= Len(s) THEN s[i] ELSE ""
Parsed(v, n) == [ok |-> TRUE, value |-> v, next |-> n]
ParseFailed == [ok |-> FALSE, value |-> JUndefined, next |-> 0]

RECURSIVE SkipWhiteSpace(_, _)
SkipWhiteSpace(s, i) ==
  IF CharAt(s, i) \in JsonWhiteSpace THEN SkipWhiteSpace(s, i + 1) ELSE i

\* the character an escape sequence \c stands for; "" when the sequence is not one
Unescape(c) ==
  CASE c = "\"" -> "\""
    [] c = "\\" -> "\\"
    [] c = "/" -> "/"
    [] c = "n" -> "\n"
    [] c = "t" -> "\t"
    [] c = "r" -> "\r"
    [] OTHER -> ""

\* the characters of a string literal from position i on, a run of plain characters at a
\* time: up to the closing quote, an escape sequence, or a character a literal cannot hold
StringStops == {"\"", "\\", "\n", "\t", "\r"}
RECURSIVE ParseStringBody(_, _, _)
ParseStringBody(s, i, acc) ==
  LET stops == {j \in i..Len(s) : s[j] \in StringStops}
      stop == MinOf(stops)
      run == SubSeq(s, i, stop - 1)
  IN  IF stops = {} \/ s[stop] \in {"\n", "\t", "\r"} THEN ParseFailed
      ELSE IF s[stop] = "\"" THEN Parsed(JStr(acc \o run), stop + 1)
      ELSE IF Unescape(CharAt(s, stop + 1)) = "" THEN ParseFailed
      ELSE ParseStringBody(s, stop + 2, (acc \o run) \o <<Unescape(CharAt(s, stop + 1))>>)
ParseString(s, i) == IF CharAt(s, i) = "\"" THEN ParseStringBody(s, i + 1, <<>>) ELSE ParseFailed

RECURSIVE DigitsEnd(_, _)
DigitsEnd(s, i) == IF CharAt(s, i) \in Digit THEN DigitsEnd(s, i + 1) ELSE i
ParseNumber(s, i) ==
  LET from == IF CharAt(s, i) = "-" THEN i + 1 ELSE i
      to == DigitsEnd(s, from)
      digits == SubSeq(s, from, to - 1)
  IN  IF to = from \/ (to - from > 1 /\ s[from] = "0") \/ CharAt(s, to) \in {".", "e", "E"}
      THEN ParseFailed
      ELSE Parsed(JNum(IF from > i /\ digits # <<"0">> THEN <<"-">> \o digits ELSE digits), to)

ParseWord(s, i, word, v) ==
  IF i + Len(word) - 1 <= Len(s) /\ SubSeq(s, i, i + Len(word) - 1) = word
  THEN Parsed(v, i + Len(word))
  ELSE ParseFailed

RECURSIVE ParseValue(_, _)
RECURSIVE ParseArrayRest(_, _, _)
RECURSIVE ParseObjectRest(_, _, _)
ParseValue(s, at) ==
  LET i == SkipWhiteSpace(s, at)
      c == CharAt(s, i)
  IN  CASE c = "{" ->
             IF CharAt(s, SkipWhiteSpace(s, i + 1)) = "}"
             THEN Parsed(JObj(<<>>, <<>>), SkipWhiteSpace(s, i + 1) + 1)
             ELSE ParseObjectRest(s, i + 1, JObj(<<>>, <<>>))
        [] c = "[" ->
             IF CharAt(s, SkipWhiteSpace(s, i + 1)) = "]"
             THEN Parsed(JArr(<<>>), SkipWhiteSpace(s, i + 1) + 1)
             ELSE ParseArrayRest(s, i + 1, <<>>)
        [] c = "\"" -> ParseString(s, i)
        [] c = "t" -> ParseWord(s, i, <<"t","r","u","e">>, JTrue)
        [] c = "f" -> ParseWord(s, i, <<"f","a","l","s","e">>, JFalse)
        [] c = "n" -> ParseWord(s, i, <<"n","u","l","l">>, JNull)
        [] c = "-" \/ c \in Digit -> ParseNumber(s, i)
        [] OTHER -> ParseFailed
\* the items of an array from position at on, a value being due
ParseArrayRest(s, at, acc) ==
  LET v == ParseValue(s, at)
      j == SkipWhiteSpace(s, v.next)
  IN  IF ~v.ok THEN ParseFailed
      ELSE IF CharAt(s, j) = "," THEN ParseArrayRest(s, j + 1, Append(acc, v.value))
      ELSE IF CharAt(s, j) = "]" THEN Parsed(JArr(Append(acc, v.value)), j + 1)
      ELSE ParseFailed
\* the members of an object from position at on, a key being due
ParseObjectRest(s, at, obj) ==
  LET k == ParseString(s, SkipWhiteSpace(s, at))
      colon == SkipWhiteSpace(s, k.next)
      v == ParseValue(s, colon + 1)
      j == SkipWhiteSpace(s, v.next)
  IN  IF ~k.ok \/ CharAt(s, colon) # ":" THEN ParseFailed
      ELSE IF ~v.ok THEN ParseFailed
      ELSE IF CharAt(s, j) = ","
           THEN ParseObjectRest(s, j + 1, SetMember(obj, k.value.str, v.value))
      ELSE IF CharAt(s, j) = "}"
           THEN Parsed(SetMember(obj, k.value.str, v.value), j + 1)
      ELSE ParseFailed

\* JSON.parse(s): the value, or a failure where JSON.parse throws a SyntaxError
JsonParse(s) ==
  LET v == ParseValue(s, 1)
  IN  IF v.ok /\ SkipWhiteSpace(s, v.next) > Len(s) THEN v ELSE ParseFailed

(***************************************************************************)
(* JSON.stringify of a value: members whose value is undefined are left    *)
(* out of an object, an undefined item of an array is written as null.     *)
(***************************************************************************)
EscapeChar(c) ==
  CASE c = "\"" -> <<"\\", "\"">>
    [] c = "\\" -> <<"\\", "\\">>
    [] c = "\n" -> <<"\\", "n">>
    [] c = "\t" -> <<"\\", "t">>
    [] c = "\r" -> <<"\\", "r">>
    [] OTHER -> <<c>>
\* the concatenation of a sequence of strings (by halves)
RECURSIVE Concat(_)
Concat(parts) ==
  IF Len(parts) = 0 THEN <<>>
  ELSE IF Len(parts) = 1 THEN parts[1]
  ELSE LET half == Len(parts) \div 2
       IN  Concat(SubSeq(parts, 1, half)) \o Concat(SubSeq(parts, half + 1, Len(parts)))
Quote(s) == <<"\"">> \o Concat([i \in 1..Len(s) |-> EscapeChar(s[i])]) \o <<"\"">>

RECURSIVE JsonStringify(_)
JsonStringify(v) ==
  CASE v.kind = "string" -> Quote(v.str)
    [] v.kind = "number" -> v.str
    [] v.kind = "true" -> <<"t","r","u","e">>
    [] v.kind = "false" -> <<"f","a","l","s","e">>
    [] v.kind = "array" ->
         <<"[">> \o Join([i \in 1..Len(v.items) |->
                            IF v.items[i].kind = "undefined" THEN <<"n","u","l","l">>
                            ELSE JsonStringify(v.items[i])], <<",">>) \o <<"]">>
    [] v.kind = "object" ->
         LET defined == SelectSeq([i \in 1..Len(v.keys) |-> i],
                                  LAMBDA i : v.items[i].kind # "undefined")
         IN  <<"{">> \o Join([n \in 1..Len(defined) |->
                                Quote(v.keys[defined[n]]) \o <<":">>
                                  \o JsonStringify(v.items[defined[n]])], <<",">>) \o <<"}">>
    [] OTHER -> <<"n","u","l","l">>


(***************************************************************************)
(* convertToStructuredJSON (route.ts:9-52) and the chunks the upload       *)
(* handler makes of its result (route.ts:298-322)                          *)
(***************************************************************************)
KeyContent == <<"c","o","n","t","e","n","t">>
KeyMetadata == <<"m","e","t","a","d","a","t","a">>
KeySections == <<"s","e","c","t","i","o","n","s">>
KeyTitle == <<"t","i","t","l","e">>
KeyType == <<"t","y","p","e">>
KeySectionTitle == <<"s","e","c","t","i","o","n","T","i","t","l","e">>
KeyExtractionMethod == <<"e","x","t","r","a","c","t","i","o","n","M","e","t","h","o","d">>
KeyExtractionDate == <<"e","x","t","r","a","c","t","i","o","n","D","a","t","e">>
KeyContentType == <<"c","o","n","t","e","n","t","T","y","p","e">>
KeySectionCount == <<"s","e","c","t","i","o","n","C","o","u","n","t">>
KeyError == <<"e","r","r","o","r">>
StrFullContent == <<"f","u","l","l","_","c","o","n","t","e","n","t">>
StrSection == <<"s","e","c","t","i","o","n">>
\* new Date().toISOString() at the time of the call
ExtractionDate == JStr(<<"2","0","2","4","-","0","5","-","0","1","T","1","0",":","0","0",":","0","0",".","0","0","0","Z">>)

\* route.ts:12  text.trim().startsWith('{') && text.trim().endsWith('}')
LooksLikeJsonAnyBracket(s) ==
  LET trimmed == Trim(s)
  IN  Len(trimmed) > 0 /\ trimmed[1] \in {"{", "["} /\ trimmed[Len(trimmed)] \in {"}", "]"}
LooksLikeJson(s) ==
  LET trimmed == Trim(s)
  IN  Len(trimmed) > 0 /\ trimmed[1] = "{" /\ trimmed[Len(trimmed)] = "}"

\* a section of the splitter as an object { title, content }
SectionObject(sec) ==
  ObjectLiteral(<< <<KeyTitle, JStr(sec.title)>>, <<KeyContent, JStr(sec.content)>> >>)

\* route.ts:23-35  the document made of the sections of the splitter
StructuredFromText(s) ==
  LET secs == splitTextIntoSections(s)
  IN  ObjectLiteral(<<
        <<KeyContent, JStr(s)>>,
        <<KeyMetadata, ObjectLiteral(<<
            <<KeyExtractionMethod, JStr(<<"v","i","s","i","o","n","-","a","p","i">>)>>,
            <<KeyExtractionDate, ExtractionDate>>,
            <<KeyContentType, JStr(<<"t","e","x","t","/","p","l","a","i","n">>)>>,
            <<KeySectionCount, JNum(NatToString(Len(secs)))>> >>)>>,
        <<KeySections, JArr([i \in 1..Len(secs) |-> SectionObject(secs[i])])>> >>)

\* route.ts:36-51  the fallback document of the catch block
FallbackStructure(t, message) ==
  ObjectLiteral(<<
    <<KeyContent, t>>,
    <<KeyMetadata, ObjectLiteral(<<
        <<KeyExtractionMethod, JStr(<<"v","i","s","i","o","n","-","a","p","i","-","f","a","l","l","b","a","c","k">>)>>,
        <<KeyExtractionDate, ExtractionDate>>,
        <<KeyError, JStr(message)>> >>)>>,
    <<KeySections, JArr(<<ObjectLiteral(<< <<KeyTitle, JStr(StrContent)>>,
                                          <<KeyContent, t>> >>)>>)>> >>)

\* route.ts:9-52; a value that is not a string has no trim method, the TypeError of
\* line 12 is caught at line 36
convertToStructuredJSON(t) ==
  IF t.kind # "string" THEN FallbackStructure(t, <<"t","e","x","t",".","t","r","i","m"," ","i","s"," ","n","o","t"," ","a"," ","f","u","n","c","t","i","o","n">>)
  ELSE IF LooksLikeJson(t.str) /\ JsonParse(t.str).ok THEN JsonParse(t.str).value
  ELSE StructuredFromText(t.str)

\* the members { ...v } contributes to an object literal
RECURSIVE IndexKeys(_)
IndexKeys(n) == IF n = 0 THEN <<>> ELSE Append(IndexKeys(n - 1), NatToString(n - 1))
SpreadOf(v) ==
  CASE v.kind = "object" -> v
    [] v.kind = "array" -> JObj(IndexKeys(Len(v.items)), v.items)
    [] v.kind = "string" ->
         JObj(IndexKeys(Len(v.str)), [i \in 1..Len(v.str) |-> JStr(<<v.str[i]>>)])
    [] OTHER -> JObj(<<>>, <<>>)

\* what for (const section of v) iterates over; only arrays and strings are iterable
IsIterable(v) == v.kind \in {"array", "string"}
IterationOf(v) ==
  IF v.kind = "array" THEN v.items ELSE [i \in 1..Len(v.str) |-> JStr(<<v.str[i]>>)]
\* section.title can be read unless the section is null or undefined
HasProperties(v) == v.kind \notin {"null", "undefined"}

\* route.ts:302-306
FullContentChunk(doc) ==
  JsonStringify(ObjectLiteral(<<
    <<KeyType, JStr(StrFullContent)>>,
    <<KeyContent, Get(doc, KeyContent)>>,
    <<KeyMetadata, Get(doc, KeyMetadata)>> >>))
\* route.ts:310-318
SectionChunkWithoutTitle(doc, section) ==
  JsonStringify(ObjectLiteral(<<
    <<KeyType, JStr(StrSection)>>,
    <<KeyTitle, Get(section, KeyTitle)>>,
    <<KeyContent, Get(section, KeyContent)>>,
    <<KeyMetadata, SpreadOf(Get(doc, KeyMetadata))>> >>))
SectionChunk(doc, section) ==
  JsonStringify(ObjectLiteral(<<
    <<KeyType, JStr(StrSection)>>,
    <<KeyTitle, Get(section, KeyTitle)>>,
    <<KeyContent, Get(section, KeyContent)>>,
    <<KeyMetadata, SetMember(SpreadOf(Get(doc, KeyMetadata)), KeySectionTitle,
                             Get(section, KeyTitle))>> >>))
\* route.ts:322
StructureChunk(doc) == JsonStringify(doc)

\* route.ts:298-322: the chunks pushed, and whether the loop over the sections raised a
\* TypeError (sections not iterable, or a section that is null)
RECURSIVE SectionChunks(_, _, _, _)
SectionChunks(doc, secs, i, acc) ==
  IF i > Len(secs) THEN [raised |-> FALSE, chunks |-> acc]
  ELSE IF ~HasProperties(secs[i]) THEN [raised |-> TRUE, chunks |-> acc]
  ELSE SectionChunks(doc, secs, i + 1, Append(acc, SectionChunk(doc, secs[i])))
ProduceChunksWithoutStructure(doc) ==
  IF ~IsIterable(Get(doc, KeySections))
  THEN [raised |-> TRUE, chunks |-> <<FullContentChunk(doc)>>]
  ELSE SectionChunks(doc, IterationOf(Get(doc, KeySections)), 1, <<FullContentChunk(doc)>>)
ProduceChunks(doc) ==
  IF ~IsIterable(Get(doc, KeySections))
  THEN [raised |-> TRUE, chunks |-> <<FullContentChunk(doc)>>]
  ELSE LET pushed == SectionChunks(doc, IterationOf(Get(doc, KeySections)), 1,
                                   <<FullContentChunk(doc)>>)
       IN  IF pushed.raised THEN pushed
           ELSE [raised |-> FALSE, chunks |-> Append(pushed.chunks, StructureChunk(doc))]


(***************************************************************************)
(* The upload handler POST (route.ts:144-370): the extraction of the text  *)
(* from the answer of the vision model                                     *)
(***************************************************************************)
KeyChoices == <<"c","h","o","i","c","e","s">>
KeyMessage == <<"m","e","s","s","a","g","e">>
KeyText == <<"t","e","x","t">>
KeyCandidates == <<"c","a","n","d","i","d","a","t","e","s">>
KeyParts == <<"p","a","r","t","s">>
KeyResponse == <<"r","e","s","p","o","n","s","e">>
KeyOutput == <<"o","u","t","p","u","t">>
KeyGeneratedText == <<"g","e","n","e","r","a","t","e","d","_","t","e","x","t">>
EmptyString == JStr(<<>>)

\* a || b || c || d
RECURSIVE FirstTruthy(_)
FirstTruthy(vs) ==
  IF Len(vs) = 1 \/ Truthy(Head(vs)) THEN Head(vs) ELSE FirstTruthy(Tail(vs))

\* route.ts:226-263  the value assigned to extractedText by the chain of shapes
ShapeText(d) ==
  LET choice == First(Get(d, KeyChoices))
      candidate == First(Get(d, KeyCandidates))
      content == Get(candidate, KeyContent)
      part == First(Get(content, KeyParts))
      direct == FirstTruthy(<<Get(d, KeyText), Get(d, KeyResponse), Get(d, KeyOutput),
                              Get(d, KeyGeneratedText)>>)
  IN  IF Truthy(Get(d, KeyChoices)) /\ Truthy(choice) /\ Truthy(Get(choice, KeyMessage))
      THEN Get(Get(choice, KeyMessage), KeyContent)
      ELSE IF Truthy(Get(d, KeyChoices)) /\ Truthy(choice)
      THEN IF Truthy(Get(choice, KeyText)) THEN Get(choice, KeyText)
           ELSE IF choice.kind = "string" THEN choice
           ELSE EmptyString
      ELSE IF Truthy(Get(d, KeyContent)) THEN Get(d, KeyContent)
      ELSE IF Truthy(Get(d, KeyCandidates)) /\ Truthy(candidate) /\ Truthy(content)
      THEN IF Truthy(Get(content, KeyParts)) /\ Truthy(part) /\ Truthy(Get(part, KeyText))
           THEN Get(part, KeyText)
           ELSE IF content.kind = "string" THEN content
           ELSE EmptyString
      ELSE IF Truthy(direct) THEN direct
      ELSE EmptyString

\* route.ts:266-274  the first top-level string property longer than 100 characters
MinTopLevelLength == 100
LongTopLevelStrings(d) ==
  SelectSeq(d.items, LAMBDA v : v.kind = "string" /\ Len(v.str) > MinTopLevelLength)

\* route.ts:221-274  extractedText before the test of line 276
RouteExtract(d) ==
  IF ~Truthy(ShapeText(d)) /\ d.kind \in {"object", "array"} /\ LongTopLevelStrings(d) # <<>>
  THEN LongTopLevelStrings(d)[1]
  ELSE ShapeText(d)

\* route.ts:148  !session || !session.user || !session.user.id
IsAuthorized(s) == s # Absent /\ s[1].user # Absent /\ s[1].user[1].id # Absent
                     /\ s[1].user[1].id[1] # ""
\* route.ts:206  errorData.includes('credits') || errorData.includes('402')
IsCreditErrorCreditsOnly(body) == Includes(body, <<"c","r","e","d","i","t","s">>)
IsCreditError(body) == Includes(body, <<"c","r","e","d","i","t","s">>) \/ Includes(body, <<"4","0","2">>)

\* the responses of the handler
JsonResponse(st, b) == <<[status |-> st, body |-> b]>>
ErrorBody(message) == ObjectLiteral(<< <<KeyError, JStr(message)>> >>)
ErrorBodyWithDetails(message, details) ==
  ObjectLiteral(<< <<KeyError, JStr(message)>>, <<<<"d","e","t","a","i","l","s">>, JStr(details)>> >>)
Unauthorized == JsonResponse(401, ErrorBody(<<"U","n","a","u","t","h","o","r","i","z","e","d">>))
NoFileProvided == JsonResponse(400, ErrorBody(<<"N","o"," ","f","i","l","e"," ","p","r","o","v","i","d","e","d">>))
NotEnoughCredits(body) ==
  JsonResponse(402, ErrorBodyWithDetails(<<"N","o","t"," ","e","n","o","u","g","h"," ","c","r","e","d","i","t","s"," ","o","n"," ","O","p","e","n","R","o","u","t","e","r"," ","a","c","c","o","u","n","t">>, body))
VisionApiFailed == JsonResponse(500, ErrorBody(<<"F","a","i","l","e","d"," ","t","o"," ","p","r","o","c","e","s","s"," ","d","o","c","u","m","e","n","t"," ","w","i","t","h"," ","V","i","s","i","o","n"," ","A","P","I">>))
CouldNotExtract ==
  JsonResponse(500, ErrorBodyWithDetails(<<"C","o","u","l","d"," ","n","o","t"," ","e","x","t","r","a","c","t"," ","t","e","x","t"," ","f","r","o","m"," ","v","i","s","i","o","n"," ","m","o","d","e","l"," ","r","e","s","p","o","n","s","e">>,
                                         <<"S","e","e"," ","s","e","r","v","e","r"," ","l","o","g","s"," ","f","o","r"," ","d","e","t","a","i","l","s">>))
\* route.ts:363-369  the catch block of the handler
ProcessingFailed(message) ==
  JsonResponse(500, ErrorBodyWithDetails(<<"F","a","i","l","e","d"," ","t","o"," ","p","r","o","c","e","s","s"," ","d","o","c","u","m","e","n","t">>, message))

\* route.ts:360  extractedText.substring(0, 200) + '...'
PreviewLength == 200
Preview(s) == SubSeq(s, 1, IF Len(s) < PreviewLength THEN Len(s) ELSE PreviewLength) \o <<".",".",".">>
\* route.ts:355-362  the success body (status 200)
SuccessResponse(t, chunkList, records, doc) ==
  JsonResponse(200, ObjectLiteral(<<
    <<<<"s","u","c","c","e","s","s">>, JTrue>>,
    <<<<"t","e","x","t","L","e","n","g","t","h">>, JNum(NatToString(Len(t.str)))>>,
    <<<<"c","h","u","n","k","s">>, JNum(NatToString(Len(chunkList)))>>,
    <<<<"e","m","b","e","d","d","i","n","g","s">>, JNum(NatToString(Len(records)))>>,
    <<<<"p","r","e","v","i","e","w">>, JStr(Preview(t.str))>>,
    <<<<"s","t","r","u","c","t","u","r","e","d","D","a","t","a">>, doc>> >>))

\* route.ts:355-362: a value without a substring method raises a TypeError, caught at 363
FinalResponseUnlessNullEmbedding(t, chunkList, records, doc) ==
  IF t.kind = "string" /\ \A k \in 1..Len(records) : records[k].embedding # NullEmbedding
  THEN SuccessResponse(t, chunkList, records, doc)
  ELSE ProcessingFailed(<<"e","m","b","e","d","d","i","n","g"," ","f","a","i","l","e","d">>)
FinalResponse(t, chunkList, records, doc) ==
  IF t.kind = "string" THEN SuccessResponse(t, chunkList, records, doc)
  ELSE ProcessingFailed(<<"e","x","t","r","a","c","t","e","d","T","e","x","t",".","s","u","b","s","t","r","i","n","g"," ","i","s"," ","n","o","t"," ","a"," ","f","u","n","c","t","i","o","n">>)

\* generateEmbeddings(chunks, metadata) of lib/rag/document-processor: one record per
\* chunk, the embedding null where the generation failed (failed: the positions
\* of the chunks whose generation failed)
EmbeddingRecord(chunkList, k, meta, failed, attached) ==
  [id |-> k, text |-> chunkList[k],
   embedding |-> IF k \in failed THEN NullEmbedding ELSE EmbeddingOf(k),
   metadata |-> IF attached THEN [chunkIndex |-> k, fileName |-> "chunk", userId |-> "embedder"] @@ meta
                ELSE meta]
\* no failure, a partial failure, a total failure
FailureChoices(n) == {{}, {1}, 1..n}
\* attached: the step puts metadata of its own on each record, over the metadata given
generateEmbeddings(chunkList, meta, failed, attached) ==
  [k \in 1..Len(chunkList) |-> EmbeddingRecord(chunkList, k, meta, failed, attached)]
\* what the step may return: its records, or no record at all, the case the test of
\* route.ts:338 provides for
EmbeddingOutcomes(chunkList, meta) ==
  {generateEmbeddings(chunkList, meta, failed, attached) :
     failed \in FailureChoices(Len(chunkList)), attached \in BOOLEAN} \cup {<<>>}

\* route.ts:338  if (embeddingsWithText.length > 0)
ShouldStoreAlways(records) == TRUE
ShouldStore(records) == Len(records) > 0

\* route.ts:328-332  the metadata given to generateEmbeddings
UploadMetadata(f, s) ==
  [fileName |-> f[1].name, fileType |-> f[1].type, fileSize |-> f[1].size,
   userId |-> s[1].user[1].id[1], processedWith |-> "llama-3.2-vision-json"]
\* route.ts:341-351  the document handed to storeEmbeddings for a record
UploadedAt == "2024-05-01T10:00:01.000Z"
StoreDocumentItemWins(item, f, s) ==
  [id |-> item.id, text |-> item.text, embedding |-> item.embedding,
   metadata |-> item.metadata @@ [userId |-> s[1].user[1].id[1], fileName |-> f[1].name,
                                  uploadedAt |-> UploadedAt, isJsonStructured |-> TRUE]]
StoreDocument(item, f, s) ==
  [id |-> item.id, text |-> item.text, embedding |-> item.embedding,
   metadata |-> [userId |-> s[1].user[1].id[1], fileName |-> f[1].name,
                 uploadedAt |-> UploadedAt, isJsonStructured |-> TRUE] @@ item.metadata]


(***************************************************************************)
(* The requests the upload handler is run on, and the answers of the       *)
(* vision model                                                            *)
(***************************************************************************)
SessionValues ==
  { Absent, <<[user |-> Absent]>>, <<[user |-> <<[id |-> Absent]>>]>>,
    <<[user |-> <<[id |-> <<"">>]>>]>>, <<[user |-> <<[id |-> <<"u1">>]>>]>>,
    <<[user |-> <<[id |-> <<"u2">>]>>]>> }
FileValues ==
  { Absent, <<[name |-> "a.pdf", type |-> "application/pdf", size |-> 1024]>>,
    <<[name |-> "b.png", type |-> "image/png", size |-> 2048]>> }
ErrorBodies ==
  { <<"{","\"","e","r","r","o","r","\"",":","{","\"","m","e","s","s","a","g","e","\"",":","\"","I","n","s","u","f","f","i","c","i","e","n","t"," ","c","r","e","d","i","t","s","\"","}","}">>,
    <<"{","\"","e","r","r","o","r","\"",":","{","\"","c","o","d","e","\"",":","4","0","2",",","\"","m","e","s","s","a","g","e","\"",":","\"","P","a","y","m","e","n","t"," ","R","e","q","u","i","r","e","d","\"","}","}">>,
    <<"{","\"","e","r","r","o","r","\"",":","{","\"","c","o","d","e","\"",":","4","2","9",",","\"","m","e","s","s","a","g","e","\"",":","\"","R","a","t","e"," ","l","i","m","i","t","e","d","\"","}","}">>,
    <<"B","a","d"," ","G","a","t","e","w","a","y">> }

\* JSON texts of structured documents with n sections
MaxJsonSections == 2
JsonSectionText(i) ==
  <<"{","\"","t","i","t","l","e","\"",":","\"","T">> \o NatToString(i) \o <<"\"",",","\"","c","o","n","t","e","n","t","\"",":","\"","B","o","d","y"," ">> \o NatToString(i) \o <<"\"","}">>
JsonDocumentText(n) ==
  <<"{","\"","c","o","n","t","e","n","t","\"",":","\"","A","l","l","\"",",","\"","m","e","t","a","d","a","t","a","\"",":","{","\"","s","o","u","r","c","e","\"",":","\"","s","c","a","n","\"",",","\"","s","e","c","t","i","o","n","T","i","t","l","e","\"",":","\"","o","l","d","\"","}",",","\"","s","e","c","t","i","o","n","s","\"",":","[">>
    \o Join([i \in 1..n |-> JsonSectionText(i)], <<",">>) \o <<"]","}">>
\* texts that are or resemble JSON
JsonLikeTexts ==
  { <<"{","\"","a","\"",":","1","}">>, <<"{","}">>, <<"{","b","a","d","}">>, <<"{","\"","s","e","c","t","i","o","n","s","\"",":","[","n","u","l","l","]","}">>, <<"{","\"","s","e","c","t","i","o","n","s","\"",":","\"","a","b","\"","}">>,
    <<"{","\"","s","e","c","t","i","o","n","s","\"",":","{","}","}">>, <<"{","\"","s","e","c","t","i","o","n","s","\"",":","[","\"","s","\"",",","7","]",",","\"","m","e","t","a","d","a","t","a","\"",":","\"","x","y","\"","}">>,
    <<"{","\"","c","o","n","t","e","n","t","\"",":","\"","c","\"",",","\"","s","e","c","t","i","o","n","s","\"",":","[","{","\"","t","i","t","l","e","\"",":","\"","T","\"","}","]",",","\"","m","e","t","a","d","a","t","a","\"",":","[","t","r","u","e","]","}">>,
    <<"[","1",",","2","]">>, <<"[","{","\"","s","e","c","t","i","o","n","s","\"",":","[","]","}","]">>, <<"4","2">>, <<"\"","q","u","o","t","e","d","\"">>, <<"t","r","u","e">>, <<"n","u","l","l">>,
    <<"{","\"","a","\"",":","1","}"," ","t","r","a","i","l","i","n","g">>, <<"{","\"","a","\"",":","1",",","}">> }
PlainText == <<"T","a","x"," ","d","u","e"," ","2","0","2","4">>
HeaderText == Join(<<<<"S","u","m","m","a","r","y",":">>, LongLine, <<"O","V","E","R","V","I","E","W">>, <<"M","o","r","e"," ","i","n","f","o",".">>>>, <<"\n">>)
LongText == Join(<<LongLine, <<"M","o","r","e"," ","i","n","f","o",".">>>>, <<"\n">>)
ExtractedTexts ==
  {PlainText, ExampleText, HeaderText, LongText}
    \cup JsonLikeTexts
    \cup {JsonDocumentText(n) : n \in 0..MaxJsonSections}
    \cup {<<" ">> \o JsonDocumentText(n) \o <<"\n">> : n \in 0..MaxJsonSections}
\* the values choices[0].message.content can hold
ContentValuesOfMessage ==
  {JStr(t) : t \in ExtractedTexts}
    \cup { EmptyString, JUndefined, JNull, JNum(<<"7">>),
           JArr(<<ObjectLiteral(<< <<KeyType, JStr(KeyText)>>, <<KeyText, JStr(PlainText)>> >>)>>) }

Obj1(k, v) == ObjectLiteral(<< <<k, v>> >>)
Obj2(k1, v1, k2, v2) == ObjectLiteral(<< <<k1, v1>>, <<k2, v2>> >>)
OpenAIResponse(v) == Obj1(KeyChoices, JArr(<<Obj1(KeyMessage, Obj1(KeyContent, v))>>))
VisionResponses ==
  {OpenAIResponse(v) : v \in ContentValuesOfMessage}
    \cup { Obj1(KeyChoices, JArr(<<Obj1(KeyText, JStr(PlainText))>>)),
           Obj1(KeyChoices, JArr(<<JStr(PlainText)>>)),
           Obj1(KeyChoices, JStr(PlainText)),
           Obj2(KeyChoices, JArr(<<JObj(<<>>, <<>>)>>), KeyContent, JStr(PlainText)),
           Obj2(KeyChoices, JArr(<<Obj1(KeyMessage, JObj(<<>>, <<>>))>>),
                KeyContent, JStr(PlainText)),
           Obj2(KeyChoices, JArr(<<Obj1(KeyMessage, Obj1(KeyContent, EmptyString))>>),
                <<"s","u","m","m","a","r","y">>, JStr(LongLine)),
           Obj1(KeyContent, JStr(PlainText)),
           Obj1(KeyCandidates, JArr(<<Obj1(KeyContent,
                  Obj1(KeyParts, JArr(<<Obj1(KeyText, JStr(PlainText))>>)))>>)),
           Obj1(KeyCandidates, JArr(<<Obj1(KeyContent, JStr(PlainText))>>)),
           Obj1(KeyCandidates, JArr(<<Obj1(KeyContent, JObj(<<>>, <<>>))>>)),
           Obj1(KeyText, JStr(PlainText)),
           Obj1(KeyResponse, JStr(PlainText)),
           Obj1(KeyOutput, JStr(PlainText)),
           Obj1(KeyGeneratedText, JStr(PlainText)),
           Obj2(<<"i","d">>, JStr(<<"g","e","n","-","1">>), <<"n","o","t","e">>, JStr(LongLine)),
           Obj1(<<"i","d">>, JStr(<<"g","e","n","-","1">>)),
           JObj(<<>>, <<>>),
           JArr(<<JStr(LongLine)>>),
           JStr(PlainText),
           JNull }

(***************************************************************************)
(* The upload handler as a state machine: one request                      *)
(***************************************************************************)
UploadInit ==
  /\ session \in SessionValues
  /\ formParses \in BOOLEAN
  /\ file \in IF formParses THEN FileValues ELSE {Absent}
  /\ visionData = Absent
  /\ errorData = Absent
  /\ extractedText = Absent
  /\ structuredData = Absent
  /\ chunks = <<>>
  /\ embeddingsWithText = <<>>
  /\ externalCalls = <<>>
  /\ response = Absent
  /\ uploadPc = "auth"
UploadIdle ==
  /\ session = Absent
  /\ formParses = TRUE
  /\ file = Absent
  /\ visionData = Absent
  /\ errorData = Absent
  /\ extractedText = Absent
  /\ structuredData = Absent
  /\ chunks = <<>>
  /\ embeddingsWithText = <<>>
  /\ externalCalls = <<>>
  /\ response = Absent
  /\ uploadPc = "idle"

\* the handler returns a response
Respond(r) == response' = r /\ uploadPc' = "done"

\* route.ts:146-150: no valid session
UploadUnauthorized ==
  /\ uploadPc = "auth"
  /\ ~IsAuthorized(session)
  /\ Respond(Unauthorized)
  /\ UNCHANGED <<session, formParses, file, visionData, errorData, extractedText,
                 structuredData, chunks, embeddingsWithText, externalCalls, uploadFrame, storeVars>>

\* route.ts:146-153: the session is valid, the form data is awaited
UploadAuthorized ==
  /\ uploadPc = "auth"
  /\ IsAuthorized(session)
  /\ uploadPc' = "form"
  /\ UNCHANGED <<session, formParses, file, visionData, errorData, extractedText,
                 structuredData, chunks, embeddingsWithText, externalCalls, response,
                 uploadFrame, storeVars>>

\* route.ts:153 request.formData() rejects (the body is no form); 363-369
UploadFormDataFails ==
  /\ uploadPc = "form"
  /\ ~formParses
  /\ Respond(ProcessingFailed(<<"F","a","i","l","e","d"," ","t","o"," ","p","a","r","s","e"," ","b","o","d","y"," ","a","s"," ","F","o","r","m","D","a","t","a",".">>))
  /\ UNCHANGED <<session, formParses, file, visionData, errorData, extractedText,
                 structuredData, chunks, embeddingsWithText, externalCalls, uploadFrame, storeVars>>

\* route.ts:154-158: the form has no file
UploadNoFile ==
  /\ uploadPc = "form"
  /\ formParses
  /\ file = Absent
  /\ Respond(NoFileProvided)
  /\ UNCHANGED <<session, formParses, file, visionData, errorData, extractedText,
                 structuredData, chunks, embeddingsWithText, externalCalls, uploadFrame, storeVars>>

\* route.ts:160-199: the file is read and the vision model is called
UploadCallVision ==
  /\ uploadPc = "form"
  /\ formParses
  /\ file # Absent
  /\ externalCalls' = Append(externalCalls, "vision")
  /\ uploadPc' = "vision"
  /\ UNCHANGED <<session, formParses, file, visionData, errorData, extractedText,
                 structuredData, chunks, embeddingsWithText, response, uploadFrame, storeVars>>

\* route.ts:170 fetch rejects, or 216 response.json() rejects; 363-369
UploadVisionThrows ==
  /\ uploadPc = "vision"
  /\ Respond(ProcessingFailed(<<"f","e","t","c","h"," ","f","a","i","l","e","d">>))
  /\ UNCHANGED <<session, formParses, file, visionData, errorData, extractedText,
                 structuredData, chunks, embeddingsWithText, externalCalls, uploadFrame, storeVars>>

\* route.ts:201-214: the vision model answers with an error status
UploadVisionNotOk ==
  /\ uploadPc = "vision"
  /\ \E body \in ErrorBodies :
       /\ errorData' = <<body>>
       /\ Respond(IF IsCreditError(body) THEN NotEnoughCredits(body) ELSE VisionApiFailed)
  /\ UNCHANGED <<session, formParses, file, visionData, extractedText, structuredData,
                 chunks, embeddingsWithText, externalCalls, uploadFrame, storeVars>>

\* route.ts:216-219 and 363-369: the body is null, Object.keys(data) raises
UploadVisionNull ==
  /\ uploadPc = "vision"
  /\ visionData' = <<JNull>>
  /\ Respond(ProcessingFailed(<<"C","a","n","n","o","t"," ","c","o","n","v","e","r","t"," ","u","n","d","e","f","i","n","e","d"," ","o","r"," ","n","u","l","l"," ","t","o"," ","o","b","j","e","c","t">>))
  /\ UNCHANGED <<session, formParses, file, errorData, extractedText, structuredData, chunks,
                 embeddingsWithText, externalCalls, uploadFrame, storeVars>>

\* route.ts:216-282: no text is found in the answer
UploadNoText ==
  /\ uploadPc = "vision"
  /\ \E d \in VisionResponses \ {JNull} :
       /\ ~Truthy(RouteExtract(d))
       /\ visionData' = <<d>>
       /\ extractedText' = <<RouteExtract(d)>>
  /\ Respond(CouldNotExtract)
  /\ UNCHANGED <<session, formParses, file, errorData, structuredData, chunks, embeddingsWithText,
                 externalCalls, uploadFrame, storeVars>>

\* route.ts:216-322 and 363-369: text is found and converted, the loop over the sections
\* raises
UploadChunksFail ==
  /\ uploadPc = "vision"
  /\ \E d \in VisionResponses \ {JNull} :
       /\ Truthy(RouteExtract(d))
       /\ visionData' = <<d>>
       /\ extractedText' = <<RouteExtract(d)>>
  /\ structuredData' = <<convertToStructuredJSON(extractedText'[1])>>
  /\ ProduceChunks(structuredData'[1]).raised
  /\ chunks' = ProduceChunks(structuredData'[1]).chunks
  /\ Respond(ProcessingFailed(<<"s","t","r","u","c","t","u","r","e","d","D","a","t","a",".","s","e","c","t","i","o","n","s"," ","i","s"," ","n","o","t"," ","i","t","e","r","a","b","l","e">>))
  /\ UNCHANGED <<session, formParses, file, errorData, embeddingsWithText, externalCalls,
                 uploadFrame, storeVars>>

\* route.ts:216-333: text is found and converted, the chunks are made, generateEmbeddings
\* is called
UploadCallEmbeddings ==
  /\ uploadPc = "vision"
  /\ \E d \in VisionResponses \ {JNull} :
       /\ Truthy(RouteExtract(d))
       /\ visionData' = <<d>>
       /\ extractedText' = <<RouteExtract(d)>>
  /\ structuredData' = <<convertToStructuredJSON(extractedText'[1])>>
  /\ ~ProduceChunks(structuredData'[1]).raised
  /\ chunks' = ProduceChunks(structuredData'[1]).chunks
  /\ externalCalls' = Append(externalCalls, "embeddings")
  /\ uploadPc' = "embeddings"
  /\ UNCHANGED <<session, formParses, file, errorData, embeddingsWithText, response,
                 uploadFrame, storeVars>>

\* route.ts:327-353: the records arrive, storeEmbeddings is called with them
UploadCallStore ==
  /\ uploadPc = "embeddings"
  /\ embeddingsWithText' \in EmbeddingOutcomes(chunks, UploadMetadata(file, session))
  /\ ShouldStore(embeddingsWithText')
  /\ documents' = [k \in 1..Len(embeddingsWithText') |->
                     StoreDocument(embeddingsWithText'[k], file, session)]
  /\ storePc' = "start"
  /\ externalCalls' = Append(externalCalls, "store")
  /\ uploadPc' = "store"
  /\ UNCHANGED <<session, formParses, file, visionData, errorData, extractedText,
                 structuredData, chunks, response, uploadFrame, storeBatchStart, upsertCalls,
                 upsertInFlight, failedUpserts, storeReturn>>

\* route.ts:327-338 and 355-369: no record arrives, storeEmbeddings is not called, the
\* response is made
UploadSkipStore ==
  /\ uploadPc = "embeddings"
  /\ embeddingsWithText' \in EmbeddingOutcomes(chunks, UploadMetadata(file, session))
  /\ ~ShouldStore(embeddingsWithText')
  /\ Respond(FinalResponse(extractedText[1], chunks, embeddingsWithText', structuredData[1]))
  /\ UNCHANGED <<session, formParses, file, visionData, errorData, extractedText,
                 structuredData, chunks, externalCalls, uploadFrame, storeVars>>

\* route.ts:353-369: storeEmbeddings has returned, the response is made
UploadRespond ==
  /\ uploadPc = "store"
  /\ storePc = "done"
  /\ Respond(FinalResponse(extractedText[1], chunks, embeddingsWithText, structuredData[1]))
  /\ UNCHANGED <<session, formParses, file, visionData, errorData, extractedText,
                 structuredData, chunks, embeddingsWithText, externalCalls, uploadFrame, storeVars>>

UploadNext ==
  \/ UploadUnauthorized
  \/ UploadAuthorized
  \/ UploadFormDataFails
  \/ UploadNoFile
  \/ UploadCallVision
  \/ UploadVisionThrows
  \/ UploadVisionNotOk
  \/ UploadVisionNull
  \/ UploadNoText
  \/ UploadChunksFail
  \/ UploadCallEmbeddings
  \/ UploadCallStore
  \/ UploadSkipStore
  \/ UploadRespond
  \/ StoreNext


\* ---- claims on the structured document and its chunks ----
\* the extracted text is a string and convertToStructuredJSON has returned its document
Converted == structuredData # Absent /\ extractedText[1].kind = "string"
TheText == extractedText[1].str
TheDocument == structuredData[1]
\* the sections of the document are a sequence of section objects
IsSectionSequence(v) ==
  v.kind = "array" /\ \A i \in 1..Len(v.items) : v.items[i].kind = "object"
SectionsOf(doc) == Get(doc, KeySections).items
\* the document the section splitter gives for a text
IsSplitDocument(doc, s) ==
  /\ Get(doc, KeyContent) = JStr(s)
  /\ Get(doc, KeySections) =
       JArr([i \in 1..Len(splitTextIntoSections(s)) |-> SectionObject(splitTextIntoSections(s)[i])])
  /\ Get(Get(doc, KeyMetadata), KeySectionCount) =
       JNum(NatToString(Len(splitTextIntoSections(s))))
ChunkValue(k) == JsonParse(chunks[k]).value
\* the loop over the sections has ended and generateEmbeddings was called with the chunks
ChunksMade == \E k \in 1..Len(externalCalls) : externalCalls[k] = "embeddings"
IsSuccess == response # Absent /\ response[1].status = 200

\* C11: for a document whose sections are a sequence of n sections the
\* handler makes exactly n + 2 chunks, and the chunks field of the success
\* response is that number.
C11_ChunkCount ==
  (structuredData # Absent /\ IsSectionSequence(Get(TheDocument, KeySections))) =>
    /\ uploadPc \in {"embeddings", "store", "done"}
    /\ Len(chunks) = Len(SectionsOf(TheDocument)) + 2
    /\ Len(chunks) >= 2
    /\ IsSuccess =>
         Get(response[1].body, <<"c","h","u","n","k","s">>) =
           JNum(NatToString(Len(SectionsOf(TheDocument)) + 2))
C11_Witness ==
  /\ IsSuccess
  /\ Len(SectionsOf(TheDocument)) = 2
  /\ Len(chunks) = 4
  /\ Get(response[1].body, <<"c","h","u","n","k","s">>) = JNum(<<"4">>)

\* C12: the first chunk is the full_content chunk (content and metadata of
\* the document), chunk i + 1 is the section chunk of the i-th section
\* (its title, its content, the metadata of the document with sectionTitle
\* set to the title), and the last chunk is the serialization of the whole
\* document.
C12_ChunkOrder ==
  (structuredData # Absent /\ IsSectionSequence(Get(TheDocument, KeySections))) =>
    LET n == Len(SectionsOf(TheDocument))
    IN  /\ Len(chunks) = n + 2
        /\ Get(ChunkValue(1), KeyType) = JStr(StrFullContent)
        /\ Get(ChunkValue(1), KeyContent) = Get(TheDocument, KeyContent)
        /\ Get(ChunkValue(1), KeyMetadata) = Get(TheDocument, KeyMetadata)
        /\ \A i \in 1..n :
             /\ Get(ChunkValue(i + 1), KeyType) = JStr(StrSection)
             /\ Get(ChunkValue(i + 1), KeyTitle) = Get(SectionsOf(TheDocument)[i], KeyTitle)
             /\ Get(ChunkValue(i + 1), KeyContent) = Get(SectionsOf(TheDocument)[i], KeyContent)
             /\ Get(Get(ChunkValue(i + 1), KeyMetadata), KeySectionTitle) =
                  Get(SectionsOf(TheDocument)[i], KeyTitle)
        /\ JsonParse(chunks[n + 2]).ok
        /\ ChunkValue(n + 2) = TheDocument
C12_Witness ==
  /\ ChunksMade
  /\ IsSectionSequence(Get(TheDocument, KeySections))
  /\ Len(chunks) = 4
  /\ Get(ChunkValue(2), KeyTitle) = JStr(<<"S","u","m","m","a","r","y">>)
  /\ Get(Get(ChunkValue(3), KeyMetadata), KeySectionTitle) = JStr(<<"O","V","E","R","V","I","E","W">>)

\* C13 (as stated): a text that is valid JSON, of whatever kind of value,
\* is the document as it is; a text that is not valid JSON is split into
\* sections.
C13_AsIsWhenValidJson ==
  Converted =>
    IF JsonParse(TheText).ok THEN TheDocument = JsonParse(TheText).value
    ELSE IsSplitDocument(TheDocument, TheText)

\* C13 (amended): a text that is valid JSON whose value is an object is the
\* document as it is; every other text, the JSON texts of arrays, numbers,
\* strings, true, false and null included, is split into sections.
C13_AsIsWhenJsonObject ==
  Converted =>
    IF JsonParse(TheText).ok /\ JsonParse(TheText).value.kind = "object"
    THEN TheDocument = JsonParse(TheText).value
    ELSE IsSplitDocument(TheDocument, TheText)
C13_Witness ==
  /\ Converted
  /\ JsonParse(TheText).ok
  /\ JsonParse(TheText).value.kind = "array"
  /\ IsSplitDocument(TheDocument, TheText)
  /\ TheDocument # JsonParse(TheText).value

\* C14: whatever the extracted text, convertToStructuredJSON returns a
\* document with content, metadata and a sequence of at least one section,
\* and the loop that makes the chunks of it does not raise.
IsUsableDocument(doc) ==
  /\ doc.kind = "object"
  /\ Get(doc, KeyContent).kind # "undefined"
  /\ Get(doc, KeyMetadata).kind = "object"
  /\ IsSectionSequence(Get(doc, KeySections))
  /\ Len(SectionsOf(doc)) >= 1
C14_UsableDocument ==
  Converted =>
    /\ IsUsableDocument(TheDocument)
    /\ ChunksMade

\* ---- claims on the status of the upload response ----
StatusOf(r) == r[1].status
SuccessKeys == <<<<"s","u","c","c","e","s","s">>, <<"t","e","x","t","L","e","n","g","t","h">>, <<"c","h","u","n","k","s">>, <<"e","m","b","e","d","d","i","n","g","s">>, <<"p","r","e","v","i","e","w">>,
                 <<"s","t","r","u","c","t","u","r","e","d","D","a","t","a">>>>
\* C20: the status is that of the first failing stage: 401 without a valid
\* session, 400 for a form without a file, 402 for an error answer of the
\* vision model whose body contains 'credits' or '402', 500 for every other
\* failure; the success body is returned only when text was extracted; a
\* 401 or 400 is returned before any external call.
C20_StatusByStage ==
  response # Absent =>
    /\ StatusOf(response) \in {200, 400, 401, 402, 500}
    /\ (StatusOf(response) = 401) <=> ~IsAuthorized(session)
    /\ (StatusOf(response) = 400) <=> (IsAuthorized(session) /\ formParses /\ file = Absent)
    /\ (StatusOf(response) = 402) <=>
         (errorData # Absent
            /\ (Includes(errorData[1], <<"c","r","e","d","i","t","s">>) \/ Includes(errorData[1], <<"4","0","2">>)))
    /\ errorData # Absent => StatusOf(response) \in {402, 500}
    /\ (extractedText # Absent /\ ~Truthy(extractedText[1])) => StatusOf(response) = 500
    /\ (StatusOf(response) = 200) =>
         /\ extractedText # Absent
         /\ extractedText[1].kind = "string"
         /\ extractedText[1].str # <<>>
         /\ response[1].body.keys = SuccessKeys
         /\ Get(response[1].body, <<"s","u","c","c","e","s","s">>) = JTrue
    /\ (StatusOf(response) \in {400, 401}) => externalCalls = <<>>
    /\ (StatusOf(response) = 402) => externalCalls = <<"vision">>
C20_Witness ==
  /\ response # Absent
  /\ StatusOf(response) = 402
  /\ errorData # Absent
  /\ Includes(errorData[1], <<"4","0","2">>)
  /\ ~Includes(errorData[1], <<"c","r","e","d","i","t","s">>)


\* ---- claims on the errors the upload handler surfaces ----
EmbeddingStepReturned == ChunksMade /\ uploadPc \in {"store", "done"}
NullEmbeddings == {k \in 1..Len(embeddingsWithText) : embeddingsWithText[k].embedding = NullEmbedding}
IsCaughtError(r) ==
  /\ StatusOf(r) = 500
  /\ Get(r[1].body, KeyError) =
       JStr(<<"F","a","i","l","e","d"," ","t","o"," ","p","r","o","c","e","s","s"," ","d","o","c","u","m","e","n","t">>)

\* C21 (as stated): an error response is one of unauthorized, missing file
\* and unextractable text; every other failure leaves the response a
\* success.
C21_OnlyThreeErrorsSurfaced ==
  (response # Absent /\ ~IsSuccess) =>
    response \in {Unauthorized, NoFileProvided, CouldNotExtract}

\* C21 (amended): an error response is one of unauthorized (401), missing
\* file (400), the error answer of the vision model (402 for a body with
\* 'credits' or '402', 500 otherwise), unextractable text (500) and the 500
\* of the catch block for an exception raised in the handler; once the
\* embedding step has returned its records for an extracted string, the
\* response is the success, whichever embeddings are null and whatever
\* storeEmbeddings did and returned.
C21_ErrorsSurfaced ==
  response # Absent =>
    /\ ~IsSuccess =>
         \/ response = Unauthorized /\ ~IsAuthorized(session)
         \/ response = NoFileProvided /\ file = Absent
         \/ /\ errorData # Absent
            /\ response = IF IsCreditError(errorData[1]) THEN NotEnoughCredits(errorData[1])
                          ELSE VisionApiFailed
         \/ response = CouldNotExtract /\ ~Truthy(extractedText[1])
         \/ IsCaughtError(response)
    /\ (EmbeddingStepReturned /\ extractedText[1].kind = "string") =>
         /\ IsSuccess
         /\ storeReturn \in {Absent, <<TRUE>>, <<FALSE>>}
         /\ storeReturn = Absent <=> embeddingsWithText = <<>>
         /\ Get(response[1].body, <<"e","m","b","e","d","d","i","n","g","s">>) =
              JNum(NatToString(Len(embeddingsWithText)))
C21_Witness ==
  /\ IsSuccess
  /\ NullEmbeddings = 1..Len(embeddingsWithText)
  /\ storeReturn = <<FALSE>>
  /\ index = "null"
  /\ upsertCalls = <<>>


\* C23: every vector the store receives from one upload has in its metadata
\* the name of the uploaded file as fileName and the id of the session user
\* as userId, whatever metadata the embedding step put on the record, and
\* the vectors received are those of the records, in their order.
C23_CommonFileNameAndUserId ==
  uploadPc # "idle" =>
    /\ \A c \in 1..Len(upsertCalls) :
         \A v \in 1..Len(upsertCalls[c]) :
           /\ upsertCalls[c][v].metadata.fileName = file[1].name
           /\ upsertCalls[c][v].metadata.userId = session[1].user[1].id[1]
           /\ upsertCalls[c][v].id = embeddingsWithText[(c - 1) * 100 + v].id
           /\ upsertCalls[c][v].metadata.text = chunks[(c - 1) * 100 + v]
    /\ \A k \in 1..Len(documents) :
         /\ documents[k].metadata.fileName = file[1].name
         /\ documents[k].metadata.userId = session[1].user[1].id[1]
C23_Witness ==
  /\ uploadPc = "done"
  /\ Len(upsertCalls) = 1
  /\ Len(upsertCalls[1]) = 4
  /\ \A k \in 1..4 : embeddingsWithText[k].metadata.fileName = "chunk"
  /\ \A v \in 1..4 : upsertCalls[1][v].metadata.fileName = "b.png"
  /\ \A v \in 1..4 : upsertCalls[1][v].metadata.userId = "u2"


\* C27: the external calls of one request are made in the order vision
\* call, embedding generation, store write, each at most once; the
\* embedding generation is called only once text was extracted, the store
\* write only once the embedding generation has returned at least one
\* record, and a request answered with 401, 400, 402 or with the
\* extraction failure has made neither call.
IsPrefixOf(s, t) == Len(s) <= Len(t) /\ s = SubSeq(t, 1, Len(s))
Called(name) == \E k \in 1..Len(externalCalls) : externalCalls[k] = name
C27_ExternalCallOrder ==
  uploadPc # "idle" =>
    /\ IsPrefixOf(externalCalls, <<"vision", "embeddings", "store">>)
    /\ Called("embeddings") => (extractedText # Absent /\ Truthy(extractedText[1]))
    /\ Called("store") <=> storePc # "idle"
    /\ Called("store") => Len(embeddingsWithText) >= 1
    /\ (uploadPc = "done" /\ Called("embeddings") /\ embeddingsWithText = <<>>) =>
         ~Called("store")
    /\ upsertCalls # <<>> => Called("store")
    /\ (response # Absent
          /\ (StatusOf(response) \in {400, 401, 402} \/ response = CouldNotExtract)) =>
         (~Called("embeddings") /\ ~Called("store") /\ upsertCalls = <<>>)
C27_Witness ==
  /\ IsSuccess
  /\ externalCalls = <<"vision", "embeddings">>
  /\ embeddingsWithText = <<>>
  /\ storePc = "idle"


(***************************************************************************)
(* The lazily constructed client handles: getPineconeClient                *)
(* (pinecone-client.ts:3-26) and getOpenAIClient (part_000:244-259), over  *)
(* a sequence of calls.  constructs says whether the constructor returns   *)
(* (TRUE) or throws (FALSE) when it is called.                             *)
(***************************************************************************)
MaxClientCalls == 4

\* pinecone-client.ts:5-26: the handle after the call, the value returned, and whether
\* a client was constructed
getPineconeClientAlwaysConstructs(handle, constructs) ==
  IF constructs THEN [handle |-> "client", returned |-> "client", constructed |-> TRUE]
  ELSE [handle |-> handle, returned |-> "null", constructed |-> FALSE]
getPineconeClient(handle, constructs) ==
  IF handle = "null"
  THEN IF constructs THEN [handle |-> "client", returned |-> "client", constructed |-> TRUE]
       ELSE [handle |-> "null", returned |-> "null", constructed |-> FALSE]
  ELSE [handle |-> handle, returned |-> handle, constructed |-> FALSE]
\* part_000:246-259
getOpenAIClient(handle, constructs) ==
  IF handle = "null"
  THEN IF constructs THEN [handle |-> "client", returned |-> "client", constructed |-> TRUE]
       ELSE [handle |-> "null", returned |-> "null", constructed |-> FALSE]
  ELSE [handle |-> handle, returned |-> handle, constructed |-> FALSE]

ClientInit ==
  /\ clientReturns = <<>>
  /\ pineconeConstructions = 0
  /\ openaiConstructions = 0
ClientIdle == ClientInit

CallGetPineconeClient ==
  /\ Len(clientReturns) < MaxClientCalls
  /\ \E constructs \in BOOLEAN :
       LET call == getPineconeClient(pineconeClient, constructs)
       IN  /\ pineconeClient' = call.handle
           /\ clientReturns' = Append(clientReturns, [getter |-> "pinecone", value |-> call.returned])
           /\ pineconeConstructions' = pineconeConstructions + (IF call.constructed THEN 1 ELSE 0)
  /\ UNCHANGED <<openaiClient, openaiConstructions, clientFrame>>

CallGetOpenAIClient ==
  /\ Len(clientReturns) < MaxClientCalls
  /\ \E constructs \in BOOLEAN :
       LET call == getOpenAIClient(openaiClient, constructs)
       IN  /\ openaiClient' = call.handle
           /\ clientReturns' = Append(clientReturns, [getter |-> "openai", value |-> call.returned])
           /\ openaiConstructions' = openaiConstructions + (IF call.constructed THEN 1 ELSE 0)
  /\ UNCHANGED <<pineconeClient, pineconeConstructions, clientFrame>>

ClientNext == CallGetPineconeClient \/ CallGetOpenAIClient

\* C22: over a sequence of calls of getPineconeClient and getOpenAIClient,
\* each getter constructs a client at most once; from the first call that
\* returned the client on, every call of that getter returns the client
\* and constructs nothing; the handle holds the client exactly when one
\* was constructed, so it is never set back to null.
ReturnsOf(getter) == {i \in 1..Len(clientReturns) : clientReturns[i].getter = getter}
ClientReturnedOnceForAll(getter) ==
  \A i, j \in ReturnsOf(getter) :
    (i < j /\ clientReturns[i].value = "client") => clientReturns[j].value = "client"
C22_ConstructedAtMostOnce ==
  /\ pineconeConstructions <= 1
  /\ openaiConstructions <= 1
  /\ pineconeClient = "client" <=> pineconeConstructions = 1
  /\ openaiClient = "client" <=> openaiConstructions = 1
  /\ ClientReturnedOnceForAll("pinecone")
  /\ ClientReturnedOnceForAll("openai")
  /\ \A i \in ReturnsOf("pinecone") :
       clientReturns[i].value = "client" => pineconeConstructions = 1
  /\ \A i \in ReturnsOf("openai") :
       clientReturns[i].value = "client" => openaiConstructions = 1
C22_Witness ==
  /\ Len(clientReturns) = 4
  /\ \A i \in 1..4 : clientReturns[i].getter = "pinecone"
  /\ clientReturns[1].value = "null"
  /\ \A i \in 2..4 : clientReturns[i].value = "client"
  /\ pineconeConstructions = 1

(***************************************************************************)
(* getRelevantContext (part_000:334-360) with generateEmbedding            *)
(* (part_000:262-285); it calls queryEmbeddings, whose steps are those of  *)
(* the vector store adapter above.                                         *)
(***************************************************************************)
\* part_000:341  if (!queryEmbedding): null and undefined are falsy, an array is not,
\* the empty array included
EmbeddingMissingOrEmpty(e) == e = Absent \/ e[1] = <<>>
EmbeddingMissing(e) == e = Absent
\* part_000:349-355  if (!results || results.length === 0) return []; return results
ReturnedContexts(found) == IF Len(found) = 0 THEN <<>> ELSE found

RelevantInit ==
  /\ relevantTopK \in {3, 5}
  /\ relevantEmbedding = Absent
  /\ relevantResult = <<>>
  /\ relevantPc = "start"
RelevantIdle ==
  /\ relevantTopK = 5
  /\ relevantEmbedding = Absent
  /\ relevantResult = <<>>
  /\ relevantPc = "idle"

\* part_000:263-268 getOpenAIClient returns null, generateEmbedding returns null;
\* 341-344 getRelevantContext returns []
RelevantClientUnavailable ==
  /\ relevantPc = "start"
  /\ getOpenAIClient(openaiClient, FALSE).returned = "null"
  /\ openaiClient' = getOpenAIClient(openaiClient, FALSE).handle
  /\ relevantEmbedding' = Absent
  /\ relevantResult' = <<>>
  /\ relevantPc' = "done"
  /\ UNCHANGED <<relevantTopK, queryVars, relevantFrame>>

\* part_000:263-277 the client is there, the embedding is requested and awaited
RelevantRequestEmbedding ==
  /\ relevantPc = "start"
  /\ openaiClient' = getOpenAIClient(openaiClient, TRUE).handle
  /\ relevantPc' = "embedding"
  /\ UNCHANGED <<relevantTopK, relevantEmbedding, relevantResult, queryVars, relevantFrame>>

\* part_000:281-284 the request throws, generateEmbedding returns null; 341-344
RelevantEmbeddingFails ==
  /\ relevantPc = "embedding"
  /\ relevantEmbedding' = Absent
  /\ relevantResult' = <<>>
  /\ relevantPc' = "done"
  /\ UNCHANGED <<relevantTopK, openaiClient, queryVars, relevantFrame>>

\* part_000:279-280 the answer arrives, with an embedding or without one (undefined);
\* 341-347 queryEmbeddings is called with the embedding and topK, without a filter
RelevantEmbeddingArrives ==
  /\ relevantPc = "embedding"
  /\ \E e \in {Absent} \cup {<<emb>> : emb \in QueryEmbeddings} :
       /\ relevantEmbedding' = e
       /\ IF EmbeddingMissing(e)
          THEN /\ relevantResult' = <<>>
               /\ relevantPc' = "done"
               /\ UNCHANGED <<queryEmbedding, topK, filter, queryPc>>
          ELSE /\ queryEmbedding' = e[1]
               /\ topK' = relevantTopK
               /\ filter' = Absent
               /\ queryPc' = "start"
               /\ relevantPc' = "query"
               /\ UNCHANGED relevantResult
  /\ UNCHANGED <<relevantTopK, openaiClient, pineconeClient, index, storeRequests,
                 storeAnswer, queryResult, relevantFrame>>

\* part_000:347-355 queryEmbeddings has returned
RelevantReturn ==
  /\ relevantPc = "query"
  /\ queryPc = "done"
  /\ relevantResult' = ReturnedContexts(queryResult)
  /\ relevantPc' = "done"
  /\ UNCHANGED <<relevantTopK, relevantEmbedding, openaiClient, queryVars, relevantFrame>>

RelevantNext ==
  \/ RelevantClientUnavailable
  \/ RelevantRequestEmbedding
  \/ RelevantEmbeddingFails
  \/ RelevantEmbeddingArrives
  \/ RelevantReturn
  \/ QueryNext

\* C26: getRelevantContext ends without raising; when the embedding of the
\* query could not be generated it returns the empty sequence, the vector
\* store adapter was not called and the fallback corpus was not used; in
\* every other case it returns what queryEmbeddings returned, which is not
\* empty.
C26_EmptyOnlyWithoutEmbedding ==
  /\ relevantPc \in {"idle", "start", "embedding", "query", "done"}
  /\ (relevantPc = "query" /\ queryPc = "done") => Len(queryResult) >= 1
  /\ relevantPc = "done" =>
       IF relevantEmbedding = Absent
       THEN /\ relevantResult = <<>>
            /\ queryPc = "idle"
            /\ index = "unset"
            /\ storeRequests = <<>>
            /\ queryResult = <<>>
       ELSE /\ queryPc = "done"
            /\ queryEmbedding = relevantEmbedding[1]
            /\ topK = relevantTopK
            /\ relevantResult = queryResult
            /\ Len(relevantResult) >= 1
C26_Witness ==
  /\ relevantPc = "done"
  /\ relevantEmbedding = <<<<>>>>
  /\ index = "null"
  /\ Len(relevantResult) = 1
  /\ IsFallbackResult(relevantResult)


(***************************************************************************)
(* Specifications: one call of one operation on one input                  *)
(***************************************************************************)
CoreIdle == SplitIdle /\ ExtractIdle /\ EmbedIdle /\ QueryIdle
NewerIdle == ClientIdle /\ RelevantIdle
LaterIdle == FormatIdle /\ StoreIdle /\ DeleteIdle /\ UploadIdle /\ NewerIdle
InitSplit == SplitInit /\ ExtractIdle /\ EmbedIdle /\ QueryIdle /\ LaterIdle
InitExtract == SplitIdle /\ ExtractInit /\ EmbedIdle /\ QueryIdle /\ LaterIdle
InitEmbed == SplitIdle /\ ExtractIdle /\ EmbedInit /\ QueryIdle /\ LaterIdle
InitQuery == SplitIdle /\ ExtractIdle /\ EmbedIdle /\ QueryInit /\ LaterIdle
InitFormat == CoreIdle /\ FormatInit /\ StoreIdle /\ DeleteIdle /\ UploadIdle /\ NewerIdle
\* one operation of the vector-store adapter is called
InitAdapter ==
  /\ SplitIdle /\ ExtractIdle /\ EmbedIdle /\ FormatIdle /\ UploadIdle /\ NewerIdle
  /\ \/ QueryInit /\ StoreIdle /\ DeleteIdle
     \/ QueryIdle /\ StoreInit /\ DeleteIdle
     \/ QueryIdle /\ StoreIdle /\ DeleteInit
InitUpload == CoreIdle /\ FormatIdle /\ StoreIdle /\ DeleteIdle /\ UploadInit /\ NewerIdle
\* a sequence of calls of the client getters, from the handles not yet constructed
InitClients == CoreIdle /\ LaterIdle
\* one call of getRelevantContext
InitContext ==
  /\ CoreIdle /\ FormatIdle /\ StoreIdle /\ DeleteIdle /\ UploadIdle /\ ClientIdle
  /\ RelevantInit
AdapterNext == QueryNext \/ StoreNext \/ DeleteNext

SpecSplit == InitSplit /\ [][CallSplit]_vars
SpecExtract == InitExtract /\ [][ExtractNext]_vars
SpecEmbed == InitEmbed /\ [][EmbedNext]_vars
SpecQuery == InitQuery /\ [][QueryNext]_vars
SpecFormat == InitFormat /\ [][CallFormat]_vars
SpecAdapter == InitAdapter /\ [][AdapterNext]_vars
SpecUpload == InitUpload /\ [][UploadNext]_vars
SpecClients == InitClients /\ [][ClientNext]_vars
SpecContext == InitContext /\ [][RelevantNext]_vars
====
